---- MODULE Spec2Model ----
(***************************************************************************)
(* MiniOS: the physical frame allocator (pmm.c), the kernel heap           *)
(* (src/boot/heap.c) and the PS/2 keyboard ring (keyboard.c), each as a    *)
(* state machine of its own.  Every subsystem has its variables, its       *)
(* operations as actions and a specification that runs that subsystem      *)
(* alone; the other subsystems' variables stay as Init leaves them.        *)
(***************************************************************************)
EXTENDS Integers, Sequences, FiniteSets, TLC

VARIABLES
    pmm_total_pages,  \* pmm.c: static size_t pmm_total_pages, the frames of the window
    pmm_bitmap,       \* pmm.c: static uint8_t pmm_bitmap[PMM_BITMAP_SIZE]
    pmm_free_count,   \* pmm.c: static size_t pmm_free_count
    pmm_call,         \* the last allocator call: [op, addr, count]
    pmm_ret,          \* what that call returned (NULL for the void ones)
    pmm_owned,        \* frames handed out by an alloc and not cleared since
    heap_mem,         \* the memory at HEAP_START, one 8-byte word per cell
    heap_start,       \* heap.c: static heap_block_t* heap_start
    heap_size,        \* heap.c: static size_t heap_size
    heap_used,        \* heap.c: static size_t heap_used
    heap_call,        \* the last heap call: [op, arg]
    heap_ret,         \* what that call returned (NULL for kfree)
    heap_live,        \* pointers kmalloc/kcalloc returned that were not freed yet
    heap_freed,       \* the pointer the call before freed (NULL if none)
    heap_lost,        \* a call never returned, or left the modelled memory
    heap_calls,       \* number of heap calls made so far
    heap_pre,         \* block list and used counter before the last allocation
    heap_phase,       \* 1 after p = kmalloc(s), 2 after kfree(p), 3 after kfree(p) again
    kbd_buffer,       \* keyboard.c: static char kbd_buffer[KBD_BUFFER_SIZE]
    kbd_buffer_head,  \* keyboard.c: static volatile int kbd_buffer_head
    kbd_buffer_tail,  \* keyboard.c: static volatile int kbd_buffer_tail
    shift_pressed,    \* keyboard.c: modifier key states
    ctrl_pressed,
    alt_pressed,
    caps_lock,
    kbd_pc,           \* where the main flow is in keyboard_getchar
    kbd_c,            \* keyboard_getchar's local c
    kbd_idx,          \* the index keyboard_getchar read kbd_buffer_tail as
    kbd_has,          \* what the last keyboard_haschar call returned
    kbd_irqs,         \* number of IRQ1 interrupts handled so far
    kbd_last,         \* the last interrupt: byte produced, ring full or not, enqueued or not
    kbd_accepted,     \* the bytes kbd_buffer_put has stored, in order
    kbd_returned,     \* the bytes keyboard_getchar has returned, in order
    virtio_initialized, \* virtio_net.c: static int virtio_initialized
    rx_queue,         \* virtio_net.c: static virtq_t rx_queue, with the rings it points to
    tx_queue,         \* virtio_net.c: static virtq_t tx_queue, with the rings it points to
    tx_idx,           \* virtio_net_send: static int tx_idx
    vn_buffers,       \* the packet buffers, by address
    vn_notify,        \* writes to the queue-notify port so far, per queue number
    vn_pc,            \* where the driver is in virtio_net_send / virtio_net_receive
    vn_call,          \* the arguments and locals of the call in progress
    vn_ret,           \* what the last call returned
    vn_out,           \* what the last virtio_net_receive copied to its caller
    vn_calls,         \* number of driver calls so far
    dev_tx_next,      \* TX available entries the device has taken
    dev_rx_next,      \* RX available entries the device has taken
    dev_tx_got,       \* what the device read for each TX entry it took
    vn_sent,          \* the frames published by virtio_net_send, in order
    cpu_if,           \* the CPU's interrupt flag
    handlers,         \* idt.c: static interrupt_handler_t handlers[256] (set or NULL)
    idt,              \* idt.c: static idt_entry_t idt[256] (gate to its stub or empty)
    idt_ptr,          \* idt.c: static idt_pointer_t idt_ptr
    idtr,             \* the CPU's IDT register
    pic,              \* the two 8259 PICs
    idt_step,         \* the step of idt_init that comes next
    pic_step,         \* the port write of pic_init that comes next
    isr_pc,           \* where the CPU is in isr_handler
    isr_vector,       \* isr_handler's vector
    isr_source,       \* what raised it: a PIC ("irq") or the running code ("trap")
    isr_saved_if,     \* the interrupt flag iretq restores
    isr_log,          \* the callback runs and port writes of the dispatch in progress
    idt_dispatches,   \* number of dispatches so far
    ata_io_base,      \* ata.c: static uint16_t ata_io_base
    ata_ctrl_base,    \* ata.c: static uint16_t ata_ctrl_base
    ata_drive_present, \* ata.c: static int ata_drive_present
    ata_pc,           \* where the disk driver is: off, boot, idle, or inside a function
    ata_call,         \* the disk call in progress or last made: [op, lba, count, buf]
    ata_frame,        \* its locals: [count, sector, i, timeout]
    ata_ret,          \* what the last finished ata_read_sectors / ata_write_sectors returned
    ata_out,          \* the buffer handed to ata_read_sectors
    ata_log,          \* register writes and data words of the call, in order
    ata_io,           \* the call has accessed an I/O port
    ata_wait_failed,  \* a wait of the call timed out or saw ERR
    ata_prev,         \* the call before and what it returned
    ata_calls,        \* number of read and write calls so far
    ata_hw,           \* the machine: which channel has a controller, and what drive
    drv,              \* the drive: registers, command in progress, sector buffer
    disk,             \* the sectors of the disk that were written
    net_inited,       \* net.c: static int net_inited
    net_pc,           \* where the CPU is in the network code: off, boot, idle, or a step of net_init
    net_call,         \* the net.c call in progress or last made: [op, i]
    net_ret,          \* what the last finished entry point of net.c returned
    net_calls,        \* number of calls of entry points of net.c so far
    pci_has_nic,      \* pci.c: the device registry holds the virtio NIC
    vn_regs,          \* accesses to the NIC's registers so far, in order
    vq_failed,        \* virtio_net.c: a virtq_init of this boot returned -1
    key_hist,         \* the scancode bytes handled so far, each with the flags before it and its result
    rl,               \* keyboard_readline / shell_readline: the call in progress or finished
    boot,             \* boot.asm: the CPU from _start to kernel_main, and what the path has done
    pci               \* pci.c: the bus as the machine has it, the registry, and the last lookup

pmmVars == <<pmm_total_pages, pmm_bitmap, pmm_free_count, pmm_call, pmm_ret, pmm_owned>>

heapVars == <<heap_mem, heap_start, heap_size, heap_used, heap_call, heap_ret,
              heap_live, heap_freed, heap_lost, heap_calls, heap_pre, heap_phase>>

kbdVars == <<kbd_buffer, kbd_buffer_head, kbd_buffer_tail, shift_pressed,
             ctrl_pressed, alt_pressed, caps_lock, kbd_pc, kbd_c, kbd_idx,
             kbd_has, kbd_irqs, kbd_last, kbd_accepted, kbd_returned>>

vnVars == <<virtio_initialized, rx_queue, tx_queue, tx_idx, vn_buffers, vn_notify,
            vn_pc, vn_call, vn_ret, vn_out, vn_calls, dev_tx_next, dev_rx_next,
            dev_tx_got, vn_sent>>

idtVars == <<cpu_if, handlers, idt, idt_ptr, idtr, pic, idt_step, pic_step, isr_pc,
             isr_vector, isr_source, isr_saved_if, isr_log, idt_dispatches>>

ataVars == <<ata_io_base, ata_ctrl_base, ata_drive_present, ata_pc, ata_call, ata_frame,
             ata_ret, ata_out, ata_log, ata_io, ata_wait_failed, ata_prev, ata_calls,
             ata_hw, drv, disk>>

netVars == <<net_inited, net_pc, net_call, net_ret, net_calls, pci_has_nic, vn_regs,
             vq_failed>>

unitVars == <<key_hist, rl, boot, pci>>

vars == <<pmmVars, heapVars, kbdVars, vnVars, idtVars, ataVars, netVars, unitVars>>

NULL == 0

(***************************************************************************)
(* Bounds of the model.                                                    *)
(***************************************************************************)
\* Frames in the managed window (the kernel manages 14 MiB = 3584 frames).
PmmFrames == 6
\* Largest count handed to pmm_alloc_pages / pmm_free_pages.
MaxPageCount == 3
\* Size of the heap region in 16-byte units (the kernel's is 4 MiB).
HeapParas == 8
\* Heap calls in one run.
MaxHeapCalls == 6
\* Cells of the keyboard ring (the driver's ring has 256).
KbdCells == 3
\* Keyboard interrupts in one run.
MaxIrqs == 4
\* Entries of each virtqueue (the driver's queues have 16, or what the device says).
VqSize == 2
\* Calls of virtio_net_send and virtio_net_receive in one run.
MaxVnCalls == 3
\* Interrupt and exception dispatches in one run.
MaxDispatches == 3
\* Words of a disk sector (a sector has 256).
SectorWords == 2
\* Turns of a status wait of the disk driver (the driver's loops take 100000).
AtaPolls == 2
\* Largest sector count handed to ata_read_sectors / ata_write_sectors.
MaxAtaCount == 2
\* Read and write calls of the disk driver in one run.
MaxAtaCalls == 2
\* Scancode bytes of the fuller keyboard in one run.
MaxKeyEvents == 4
\* The largest buffer handed to a line reader, and the bytes typed into one call.
MaxLineLen == 4
MaxTyped == 5
\* The PCI buses, the devices of a bus and the functions of a device that are
\* scanned, and the entries of the registry.
PciBuses == 2
PciDevices == 2
PciFuncs == 2
MAX_PCI_DEVICES == 2

(***************************************************************************)
(* Physical frame allocator                                                *)
(***************************************************************************)
PMM_PAGE_SIZE == 4096
PMM_PAGES_PER_BYTE == 8
PMM_START_ADDR == 2097152
\* The window of a run has pmm_total_pages frames: PmmFrames where the
\* allocator runs alone, the kernel's 14 MiB where the memory layout matters.
PMM_MEMORY_SIZE == pmm_total_pages * PMM_PAGE_SIZE
PMM_TOTAL_PAGES == PMM_MEMORY_SIZE \div PMM_PAGE_SIZE
\* The kernel's window is a whole number of bitmap bytes (3584 / 8); a window
\* that is not gets the byte holding its last frames as well.
PMM_BITMAP_SIZE == (PMM_TOTAL_PAGES + PMM_PAGES_PER_BYTE - 1) \div PMM_PAGES_PER_BYTE

Pow2(k) == 2 ^ k
\* bit k of byte b
Bit(b, k) == (b \div Pow2(k)) % 2

\* pmm_bitmap[page / 8] |= (1 << (page % 8))
pmm_set_bit(bm, page) ==
    LET b == bm[page \div 8]
        k == page % 8
    IN  [bm EXCEPT ![page \div 8] = IF Bit(b, k) = 1 THEN b ELSE b + Pow2(k)]

\* pmm_bitmap[page / 8] &= ~(1 << (page % 8))
pmm_clear_bit(bm, page) ==
    LET b == bm[page \div 8]
        k == page % 8
    IN  [bm EXCEPT ![page \div 8] = IF Bit(b, k) = 1 THEN b - Pow2(k) ELSE b]

\* pmm_bitmap[page / 8] & (1 << (page % 8)), as a truth value
pmm_test_bit(bm, page) == Bit(bm[page \div 8], page % 8) # 0

\* The state the allocator's functions work on, and what they return.
PmmState(bm, fc, ret) == [bitmap |-> bm, free_count |-> fc, ret |-> ret]

\* pmm_init: every frame free
pmm_init == PmmState([i \in 0..(PMM_BITMAP_SIZE - 1) |-> 0], PMM_TOTAL_PAGES, NULL)

\* for (i = 0; i < PMM_TOTAL_PAGES; i++) if (!pmm_test_bit(i)) ...: the first
\* clear bit at or after i, PMM_TOTAL_PAGES when the loop runs out
RECURSIVE FirstClear(_, _)
FirstClear(bm, i) ==
    IF i >= PMM_TOTAL_PAGES THEN PMM_TOTAL_PAGES
    ELSE IF ~pmm_test_bit(bm, i) THEN i
    ELSE FirstClear(bm, i + 1)

pmm_alloc_page(bm, fc) ==
    IF fc = 0 THEN PmmState(bm, fc, NULL)
    ELSE LET i == FirstClear(bm, 0)
         IN  IF i < PMM_TOTAL_PAGES
             THEN PmmState(pmm_set_bit(bm, i), fc - 1,
                           PMM_START_ADDR + (i * PMM_PAGE_SIZE))
             ELSE PmmState(bm, fc, NULL)

\* A marking loop that stops after the first frame of the run.
SetRunFirstOnly(bm, j, end) == IF j >= end THEN bm ELSE pmm_set_bit(bm, j)

\* for (j = start; j < start + count; j++) pmm_set_bit(j)
RECURSIVE SetRun(_, _, _)
SetRun(bm, j, end) ==
    IF j >= end THEN bm ELSE SetRun(pmm_set_bit(bm, j), j + 1, end)

\* The scan of pmm_alloc_pages from index i with the loop's two locals; the
\* start of the run found, PMM_TOTAL_PAGES when the loop runs out.
RECURSIVE ScanRunBroken(_, _, _, _, _)
ScanRunBroken(bm, count, i, consecutive, start) ==
    IF i >= PMM_TOTAL_PAGES THEN PMM_TOTAL_PAGES
    ELSE IF ~pmm_test_bit(bm, i)
         THEN LET s == IF consecutive = 0 THEN i ELSE start
              IN  IF consecutive + 1 = count THEN s
                  ELSE ScanRunBroken(bm, count, i + 1, consecutive + 1, s)
         ELSE ScanRunBroken(bm, count, i + 1, consecutive, start)

RECURSIVE ScanRun(_, _, _, _, _)
ScanRun(bm, count, i, consecutive, start) ==
    IF i >= PMM_TOTAL_PAGES THEN PMM_TOTAL_PAGES
    ELSE IF ~pmm_test_bit(bm, i)
         THEN LET s == IF consecutive = 0 THEN i ELSE start
              IN  IF consecutive + 1 = count THEN s
                  ELSE ScanRun(bm, count, i + 1, consecutive + 1, s)
         ELSE ScanRun(bm, count, i + 1, 0, start)

\* An allocator that marks frames while it scans and leaves the first free
\* frame marked when the scan finds no run.
pmm_alloc_pages_eager(bm, fc, count) ==
    IF count = 0 \/ fc < count THEN PmmState(bm, fc, NULL)
    ELSE LET start == ScanRun(bm, count, 0, 0, 0)
         IN  IF start < PMM_TOTAL_PAGES
             THEN PmmState(SetRun(bm, start, start + count), fc - count,
                           PMM_START_ADDR + (start * PMM_PAGE_SIZE))
             ELSE PmmState(pmm_set_bit(bm, FirstClear(bm, 0)), fc - 1, NULL)

pmm_alloc_pages(bm, fc, count) ==
    IF count = 0 \/ fc < count THEN PmmState(bm, fc, NULL)
    ELSE LET start == ScanRun(bm, count, 0, 0, 0)
         IN  IF start < PMM_TOTAL_PAGES
             THEN PmmState(SetRun(bm, start, start + count), fc - count,
                           PMM_START_ADDR + (start * PMM_PAGE_SIZE))
             ELSE PmmState(bm, fc, NULL)

pmm_free_page_unchecked(bm, fc, addr) ==
    IF addr < PMM_START_ADDR \/ addr >= PMM_START_ADDR + PMM_MEMORY_SIZE
    THEN PmmState(bm, fc, NULL)
    ELSE LET page == (addr - PMM_START_ADDR) \div PMM_PAGE_SIZE
         IN  PmmState(pmm_clear_bit(bm, page), fc + 1, NULL)

pmm_free_page(bm, fc, addr) ==
    IF addr < PMM_START_ADDR \/ addr >= PMM_START_ADDR + PMM_MEMORY_SIZE
    THEN PmmState(bm, fc, NULL)
    ELSE LET page == (addr - PMM_START_ADDR) \div PMM_PAGE_SIZE
         IN  IF pmm_test_bit(bm, page)
             THEN PmmState(pmm_clear_bit(bm, page), fc + 1, NULL)
             ELSE PmmState(bm, fc, NULL)

\* A freeing loop that gives up at the first frame pmm_free_page leaves alone.
RECURSIVE FreeLoopStopsAtSkip(_, _, _, _, _)
FreeLoopStopsAtSkip(bm, fc, addr, i, count) ==
    IF i >= count THEN PmmState(bm, fc, NULL)
    ELSE LET st == pmm_free_page(bm, fc, addr + (i * PMM_PAGE_SIZE))
         IN  IF st.bitmap = bm THEN PmmState(bm, fc, NULL)
             ELSE FreeLoopStopsAtSkip(st.bitmap, st.free_count, addr, i + 1, count)

\* for (i = 0; i < count; i++) pmm_free_page(page_addr + (i * PMM_PAGE_SIZE))
RECURSIVE FreeLoop(_, _, _, _, _)
FreeLoop(bm, fc, addr, i, count) ==
    IF i >= count THEN PmmState(bm, fc, NULL)
    ELSE LET st == pmm_free_page(bm, fc, addr + (i * PMM_PAGE_SIZE))
         IN  FreeLoop(st.bitmap, st.free_count, addr, i + 1, count)

pmm_free_pages(bm, fc, addr, count) == FreeLoop(bm, fc, addr, 0, count)

\* pmm_get_free_pages
pmm_get_free_pages == pmm_free_count

\* The frames whose bit is set, and those whose bit is clear.
SetBits(bm) == {p \in 0..(PMM_TOTAL_PAGES - 1) : pmm_test_bit(bm, p)}
ClearBits(bm) == {p \in 0..(PMM_TOTAL_PAGES - 1) : ~pmm_test_bit(bm, p)}

\* Addresses the callers pass to the free functions: every frame address of
\* the window, the frame below it, the first address past it, and an address
\* inside the second frame that is not frame-aligned.
PmmAddrs ==
    {PMM_START_ADDR + (i * PMM_PAGE_SIZE) : i \in (0 - 1)..PMM_TOTAL_PAGES}
        \cup {PMM_START_ADDR + PMM_PAGE_SIZE + 1}

\* The frames an allocation that returned ret covers.
FramesOf(ret, n) == {((ret - PMM_START_ADDR) \div PMM_PAGE_SIZE) + k : k \in 0..(n - 1)}

PmmApply(st, op, addr, count) ==
    LET handed == IF op \in {"alloc_page", "alloc_pages"} /\ st.ret # NULL
                  THEN FramesOf(st.ret, count) ELSE {}
        released == SetBits(pmm_bitmap) \ SetBits(st.bitmap)
    IN  /\ pmm_bitmap' = st.bitmap
        /\ pmm_free_count' = st.free_count
        /\ pmm_ret' = st.ret
        /\ pmm_call' = [op |-> op, addr |-> addr, count |-> count]
        /\ pmm_total_pages' = pmm_total_pages
        /\ pmm_owned' = (pmm_owned \ released) \cup handed
        /\ UNCHANGED <<heapVars, kbdVars, vnVars, idtVars, ataVars, netVars, unitVars>>

Call_pmm_alloc_page ==
    PmmApply(pmm_alloc_page(pmm_bitmap, pmm_free_count), "alloc_page", NULL, 1)

Call_pmm_alloc_pages ==
    \E count \in 0..MaxPageCount :
        PmmApply(pmm_alloc_pages(pmm_bitmap, pmm_free_count, count),
                 "alloc_pages", NULL, count)

Call_pmm_free_page ==
    \E addr \in PmmAddrs :
        PmmApply(pmm_free_page(pmm_bitmap, pmm_free_count, addr),
                 "free_page", addr, 1)

Call_pmm_free_pages ==
    \E addr \in PmmAddrs, count \in 0..MaxPageCount :
        PmmApply(pmm_free_pages(pmm_bitmap, pmm_free_count, addr, count),
                 "free_pages", addr, count)

InitPmm ==
    /\ pmm_total_pages = PmmFrames
    /\ pmm_bitmap = pmm_init.bitmap
    /\ pmm_free_count = pmm_init.free_count
    /\ pmm_call = [op |-> "init", addr |-> NULL, count |-> 0]
    /\ pmm_ret = NULL
    /\ pmm_owned = {}

NextPmm ==
    \/ Call_pmm_alloc_page
    \/ Call_pmm_alloc_pages
    \/ Call_pmm_free_page
    \/ Call_pmm_free_pages

(***************************************************************************)
(* Kernel heap                                                             *)
(*                                                                         *)
(* The heap is modelled on its memory: heap_mem holds the 8-byte words at  *)
(* HEAP_START, HEAP_START + 8, ..., the heap region and the three words    *)
(* that follow it.  A heap_block_t is the three words at its address:      *)
(* size, free (an int, the low half of the second word) and next.          *)
(* A size_t or pointer value v is kept as the integer congruent to it      *)
(* modulo 2^64 with the smallest magnitude, so 2^64 - 24 is -24; sums and  *)
(* differences are then the integers', and only comparisons have to be     *)
(* told that the values are unsigned.                                      *)
(***************************************************************************)
HEAP_START == 4194304
HEAP_SIZE == HeapParas * 16
MIN_BLOCK_SIZE == 16
\* sizeof(heap_block_t) on x86_64: size_t, int, 4 bytes of padding, pointer
HEADER_SIZE == 24
OFF_SIZE == 0
OFF_FREE == 8
OFF_NEXT == 16

\* Words of heap_mem, and the largest magnitude a word may take in the model.
MemWords == (HEAP_SIZE \div 8) + 3
ValueLimit == 536870912

\* a >= b and a < b on unsigned 64-bit values
UGe(a, b) == IF (a < 0) = (b < 0) THEN a >= b ELSE a < 0
ULt(a, b) == ~UGe(a, b)

\* (size + 15) & ~15
align_size(size) == (size + 15) - ((size + 15) % 16)

\* The heap's state as its functions see it; ok turns FALSE when a function
\* reads or writes outside heap_mem, stores a value beyond ValueLimit, or
\* does not come out of a loop.
HeapState(mem, start, size, used, ok) ==
    [mem |-> mem, start |-> start, size |-> size, used |-> used, ok |-> ok]

InMem(a) ==
    /\ a >= HEAP_START
    /\ a < HEAP_START + (8 * MemWords)
    /\ (a - HEAP_START) % 8 = 0
WordAt(a) == (a - HEAP_START) \div 8
\* a heap_block_t* that can be dereferenced inside heap_mem
IsBlock(b) == InMem(b) /\ InMem(b + OFF_NEXT)

Rd(h, a) == IF InMem(a) THEN h.mem[WordAt(a)] ELSE 0
\* an 8-byte store
Wr64(h, a, v) ==
    IF h.ok /\ InMem(a) /\ v > 0 - ValueLimit /\ v < ValueLimit
    THEN [h EXCEPT !.mem[WordAt(a)] = v]
    ELSE [h EXCEPT !.ok = FALSE]
\* a 4-byte store into the low half of a word (little endian); the high
\* half stays, which the model can hold only when it is zero
Wr32(h, a, v) ==
    IF h.ok /\ InMem(a) /\ Rd(h, a) >= 0
    THEN [h EXCEPT !.mem[WordAt(a)] = v]
    ELSE [h EXCEPT !.ok = FALSE]

blk_size(h, b) == Rd(h, b + OFF_SIZE)
\* int free: the low 32 bits of the word, non-zero iff the word is
blk_free(h, b) == Rd(h, b + OFF_FREE) # 0
blk_next(h, b) == Rd(h, b + OFF_NEXT)

heap_init(start, size) ==
    LET h0 == HeapState([i \in 0..(MemWords - 1) |-> 0], start, size, HEADER_SIZE, TRUE)
        h1 == Wr64(h0, start + OFF_SIZE, size - HEADER_SIZE)
        h2 == Wr32(h1, start + OFF_FREE, 1)
    IN  Wr64(h2, start + OFF_NEXT, NULL)

\* The walk of find_free_block from block; seen holds the blocks the walk has
\* passed, and a walk that comes back to one of them never ends.
RECURSIVE FindFree(_, _, _, _)
FindFree(h, block, size, seen) ==
    IF block = NULL THEN [ok |-> TRUE, blk |-> NULL]
    ELSE IF ~IsBlock(block) \/ block \in seen THEN [ok |-> FALSE, blk |-> NULL]
    ELSE IF blk_free(h, block) /\ UGe(blk_size(h, block), size)
         THEN [ok |-> TRUE, blk |-> block]
         ELSE FindFree(h, blk_next(h, block), size, seen \cup {block})

find_free_block(h, size) == FindFree(h, h.start, size, {})

split_block(h, block, size) ==
    LET remaining == blk_size(h, block) - size - HEADER_SIZE
    IN  IF UGe(remaining, MIN_BLOCK_SIZE)
        THEN LET new_block == block + HEADER_SIZE + size
                 h1 == Wr64(h, new_block + OFF_SIZE, remaining)
                 h2 == Wr32(h1, new_block + OFF_FREE, 1)
                 h3 == Wr64(h2, new_block + OFF_NEXT, blk_next(h2, block))
                 h4 == Wr64(h3, block + OFF_SIZE, size)
             IN  Wr64(h4, block + OFF_NEXT, new_block)
        ELSE h

\* The loop of merge_free_blocks with block as its local.  seen holds the
\* blocks passed since the last merge: coming back to one of them repeats
\* the same steps for ever.  merges counts the merges left before the model
\* gives the loop up.
RECURSIVE Merge(_, _, _, _)
Merge(h, block, seen, merges) ==
    IF ~h.ok \/ block = NULL THEN h
    ELSE IF ~IsBlock(block) \/ block \in seen THEN [h EXCEPT !.ok = FALSE]
    ELSE IF blk_next(h, block) = NULL THEN h
    ELSE IF ~blk_free(h, block)
         THEN Merge(h, blk_next(h, block), seen \cup {block}, merges)
    ELSE IF ~IsBlock(blk_next(h, block)) THEN [h EXCEPT !.ok = FALSE]
    ELSE IF ~blk_free(h, blk_next(h, block))
         THEN Merge(h, blk_next(h, block), seen \cup {block}, merges)
    ELSE IF merges = 0 THEN [h EXCEPT !.ok = FALSE]
    ELSE LET h1 == Wr64(h, block + OFF_SIZE,
                        blk_size(h, block) + HEADER_SIZE + blk_size(h, blk_next(h, block)))
             n1 == blk_next(h1, block)
             h2 == IF IsBlock(n1)
                   THEN Wr64(h1, block + OFF_NEXT, blk_next(h1, n1))
                   ELSE [h1 EXCEPT !.ok = FALSE]
         IN  Merge(h2, block, {}, merges - 1)

merge_free_blocks(h) == Merge(h, h.start, {}, MemWords)

\* What a heap function leaves and returns.
HeapResult(h, ret) == [h |-> h, ret |-> ret]

kmalloc(h, size) ==
    IF size = 0 THEN HeapResult(h, NULL)
    ELSE LET s == align_size(size)
             f == find_free_block(h, s)
         IN  IF ~f.ok THEN HeapResult([h EXCEPT !.ok = FALSE], NULL)
             ELSE IF f.blk = NULL THEN HeapResult(h, NULL)
             ELSE LET h1 == split_block(h, f.blk, s)
                      h2 == Wr32(h1, f.blk + OFF_FREE, 0)
                      u  == h2.used + blk_size(h2, f.blk) + HEADER_SIZE
                      h3 == IF u > 0 - ValueLimit /\ u < ValueLimit
                            THEN [h2 EXCEPT !.used = u]
                            ELSE [h2 EXCEPT !.ok = FALSE]
                  IN  HeapResult(h3, f.blk + HEADER_SIZE)

\* memset(a, 0, n) for a word-aligned a: whole words, then the low n bytes
\* of the last one.
RECURSIVE Memset0(_, _, _)
Memset0(h, a, n) ==
    IF n <= 0 THEN h
    ELSE IF n >= 8 THEN Memset0(Wr64(h, a, 0), a + 8, n - 8)
    ELSE IF n <= 3 THEN Wr64(h, a, Rd(h, a) - (Rd(h, a) % Pow2(8 * n)))
    ELSE Wr32(h, a, 0)

kcalloc(h, count, size) ==
    LET total == count * size
        r == kmalloc(h, total)
    IN  IF r.ret # NULL THEN HeapResult(Memset0(r.h, r.ret, total), r.ret) ELSE r

kfree(h, ptr) ==
    IF ptr = NULL THEN h
    ELSE LET block == ptr - HEADER_SIZE
         IN  IF ULt(block, h.start) \/ UGe(block, h.start + h.size) THEN h
             ELSE IF ~IsBlock(block) THEN [h EXCEPT !.ok = FALSE]
             ELSE IF ~blk_free(h, block)
                  THEN LET h1 == Wr32(h, block + OFF_FREE, 1)
                           u  == h1.used - (blk_size(h1, block) + HEADER_SIZE)
                           h2 == IF u > 0 - ValueLimit /\ u < ValueLimit
                                 THEN [h1 EXCEPT !.used = u]
                                 ELSE [h1 EXCEPT !.ok = FALSE]
                       IN  merge_free_blocks(h2)
                  ELSE h

\* heap_stats: *total_out, *used_out, *free_out
heap_stats(h) == [total |-> h.size, used |-> h.used, free |-> h.size - h.used]

\* The blocks of the list from block on, in list order, up to NULL, to a
\* pointer outside heap_mem or to a block already listed.
RECURSIVE ListFrom(_, _, _)
ListFrom(h, block, seen) ==
    IF block = NULL \/ ~IsBlock(block) \/ block \in seen THEN <<>>
    ELSE <<block>> \o ListFrom(h, blk_next(h, block), seen \cup {block})

BlockList(h) == ListFrom(h, h.start, {})

\* The list as the blocks' address, payload size and free flag.
BlockView(h) ==
    [i \in 1..Len(BlockList(h)) |->
        [addr |-> BlockList(h)[i],
         size |-> blk_size(h, BlockList(h)[i]),
         free |-> blk_free(h, BlockList(h)[i])]]

NoSnapshot == [list |-> <<>>, used |-> 0]
Snapshot(h) == [list |-> BlockView(h), used |-> h.used]

\* The heap's variables as the functions' state.
HeapNow == HeapState(heap_mem, heap_start, heap_size, heap_used, TRUE)

\* Request sizes of ordinary callers: 0, sizes that round up, multiples of 16,
\* and the largest multiple of 16 the fresh heap can hold.
KmallocSizes == {0, 1, 16, 24, 32, 48, align_size(HEAP_SIZE - HEADER_SIZE) - 16}
\* SIZE_MAX and SIZE_MAX - 15
HugeSizes == {0 - 1, 0 - 16}
KcallocArgs == {<<0, 16>>, <<1, 12>>, <<2, 16>>}

\* A call that came back leaves its state; one that did not leaves the
\* heap lost, and nothing is called after it.
HeapApply(h, ret, op, arg, live, freed) ==
    /\ heap_phase' = IF op \in {"kmalloc", "kcalloc"}
                     THEN (IF h.ok /\ ret # NULL THEN 1 ELSE 0)
                     ELSE IF heap_phase = 1 /\ arg = heap_ret /\ h.ok THEN 2
                     ELSE IF heap_phase = 2 /\ arg = heap_call.arg /\ h.ok THEN 3
                     ELSE 0
    /\ heap_pre' = IF heap_phase' = 0 THEN NoSnapshot
                   ELSE IF heap_phase' = 1 THEN Snapshot(HeapNow)
                   ELSE heap_pre
    /\ heap_calls < MaxHeapCalls
    /\ heap_calls' = heap_calls + 1
    /\ heap_call' = [op |-> op, arg |-> arg]
    /\ IF h.ok
       THEN /\ heap_mem' = h.mem
            /\ heap_used' = h.used
            /\ heap_ret' = ret
            /\ heap_live' = live
            /\ heap_freed' = freed
            /\ heap_lost' = FALSE
       ELSE /\ heap_lost' = TRUE
            /\ UNCHANGED <<heap_mem, heap_used, heap_ret, heap_live, heap_freed>>
    /\ UNCHANGED <<heap_start, heap_size>>
    /\ UNCHANGED <<pmmVars, kbdVars, vnVars, idtVars, ataVars, netVars, unitVars>>

KmallocCall(sizes) ==
    /\ ~heap_lost
    /\ \E size \in sizes :
          LET r == kmalloc(HeapNow, size)
          IN  HeapApply(r.h, r.ret, "kmalloc", size,
                        IF r.ret # NULL THEN heap_live \cup {r.ret} ELSE heap_live, NULL)

Call_kmalloc == KmallocCall(KmallocSizes)

Call_kmalloc_any_size == KmallocCall(KmallocSizes \cup HugeSizes)

Call_kcalloc ==
    /\ ~heap_lost
    /\ \E a \in KcallocArgs :
          LET r == kcalloc(HeapNow, a[1], a[2])
          IN  HeapApply(r.h, r.ret, "kcalloc", a[1] * a[2],
                        IF r.ret # NULL THEN heap_live \cup {r.ret} ELSE heap_live, NULL)

\* kfree of NULL, of a live pointer, or once more of the pointer just freed
Call_kfree ==
    /\ ~heap_lost
    /\ \E ptr \in {NULL} \cup heap_live \cup {heap_freed} :
          HeapApply(kfree(HeapNow, ptr), NULL, "kfree", ptr, heap_live \ {ptr}, ptr)

InitHeap ==
    LET h == heap_init(HEAP_START, HEAP_SIZE)
    IN  /\ heap_mem = h.mem
        /\ heap_start = h.start
        /\ heap_size = h.size
        /\ heap_used = h.used
        /\ heap_call = [op |-> "heap_init", arg |-> HEAP_SIZE]
        /\ heap_ret = NULL
        /\ heap_live = {}
        /\ heap_freed = NULL
        /\ heap_lost = FALSE
        /\ heap_calls = 0
        /\ heap_pre = NoSnapshot
        /\ heap_phase = 0

NextHeap ==
    \/ Call_kmalloc
    \/ Call_kcalloc
    \/ Call_kfree

NextHeapAnySize ==
    \/ Call_kmalloc_any_size
    \/ Call_kcalloc
    \/ Call_kfree

(***************************************************************************)
(* PS/2 keyboard: the interrupt handler and the ring it fills              *)
(*                                                                         *)
(* One CPU: the IRQ1 handler runs with interrupts disabled, so it is one   *)
(* step; it can run between any two steps of the main flow, which is in    *)
(* keyboard_haschar or somewhere in keyboard_getchar.                      *)
(***************************************************************************)
KBD_BUFFER_SIZE == KbdCells
SC_LSHIFT == 42
SC_RSHIFT == 54
SC_CTRL == 29
SC_ALT == 56
SC_CAPS == 58

\* The tables, scancode s at position s + 1.
scancode_to_ascii ==
    <<0, 27, 49, 50, 51, 52, 53, 54, 55, 56, 57, 48, 45, 61, 8, 9,
      113, 119, 101, 114, 116, 121, 117, 105, 111, 112, 91, 93, 10, 0, 97, 115,
      100, 102, 103, 104, 106, 107, 108, 59, 39, 96, 0, 92, 122, 120, 99, 118,
      98, 110, 109, 44, 46, 47, 0, 42, 0, 32, 0, 0, 0, 0, 0, 0,
      0, 0, 0, 0, 0, 0, 0, 0, 0, 0, 45, 0, 0, 0, 43, 0,
      0, 0, 0, 0, 0, 0, 0, 0, 0, 0, 0, 0, 0, 0, 0, 0,
      0, 0, 0, 0, 0, 0, 0, 0, 0, 0, 0, 0, 0, 0, 0, 0,
      0, 0, 0, 0, 0, 0, 0, 0, 0, 0, 0, 0, 0, 0, 0, 0>>

scancode_to_ascii_shift ==
    <<0, 27, 33, 64, 35, 36, 37, 94, 38, 42, 40, 41, 95, 43, 8, 9,
      81, 87, 69, 82, 84, 89, 85, 73, 79, 80, 123, 125, 10, 0, 65, 83,
      68, 70, 71, 72, 74, 75, 76, 58, 34, 126, 0, 124, 90, 88, 67, 86,
      66, 78, 77, 60, 62, 63, 0, 42, 0, 32, 0, 0, 0, 0, 0, 0,
      0, 0, 0, 0, 0, 0, 0, 0, 0, 0, 45, 0, 0, 0, 43, 0,
      0, 0, 0, 0, 0, 0, 0, 0, 0, 0, 0, 0, 0, 0, 0, 0,
      0, 0, 0, 0, 0, 0, 0, 0, 0, 0, 0, 0, 0, 0, 0, 0,
      0, 0, 0, 0, 0, 0, 0, 0, 0, 0, 0, 0, 0, 0, 0, 0>>

\* kbd_buffer_put with the test of next against the tail left out.
kbd_buffer_put_unchecked(buf, head, tail, c) ==
    [buffer |-> [buf EXCEPT ![head] = c], head |-> (head + 1) % KBD_BUFFER_SIZE]

\* kbd_buffer_put with the index wrapped one cell too late.
kbd_buffer_put_wide(buf, head, tail, c) ==
    LET next == (head + 1) % (KBD_BUFFER_SIZE + 1)
    IN  IF next # tail
        THEN [buffer |-> [buf EXCEPT ![head] = c], head |-> next]
        ELSE [buffer |-> buf, head |-> head]

\* int next = (kbd_buffer_head + 1) % KBD_BUFFER_SIZE;
\* if (next != kbd_buffer_tail) { kbd_buffer[kbd_buffer_head] = c; kbd_buffer_head = next; }
kbd_buffer_put(buf, head, tail, c) ==
    LET next == (head + 1) % KBD_BUFFER_SIZE
    IN  IF next # tail
        THEN [buffer |-> [buf EXCEPT ![head] = c], head |-> next]
        ELSE [buffer |-> buf, head |-> head]

\* The byte of a key press with the caps-lock step left out.
KeyByte_no_caps(scancode, shift, ctrl, caps) ==
    LET c0 == IF shift THEN scancode_to_ascii_shift[scancode + 1]
              ELSE scancode_to_ascii[scancode + 1]
    IN  IF ctrl /\ (c0 = 99 \/ c0 = 67) THEN 3 ELSE c0

\* The byte the handler makes of a key press, 0 for none.
KeyByte(scancode, shift, ctrl, caps) ==
    LET c0 == IF shift THEN scancode_to_ascii_shift[scancode + 1]
              ELSE scancode_to_ascii[scancode + 1]
        c1 == IF caps /\ c0 >= 97 /\ c0 <= 122 THEN c0 - 97 + 65
              ELSE IF caps /\ c0 >= 65 /\ c0 <= 90 THEN c0 - 65 + 97
              ELSE c0
    IN  IF ctrl /\ (c1 = 99 \/ c1 = 67) THEN 3 ELSE c1

\* keyboard_interrupt_handler for the byte read from the data port: the
\* modifier flags and the ring it leaves, and the byte it handed to
\* kbd_buffer_put (0 when it did not call it).
keyboard_interrupt_handler(byte) ==
    LET released == byte >= 128
        scancode == byte % 128
        same == [shift |-> shift_pressed, ctrl |-> ctrl_pressed, alt |-> alt_pressed,
                 caps |-> caps_lock, buffer |-> kbd_buffer, head |-> kbd_buffer_head,
                 c |-> 0]
    IN  IF scancode = SC_LSHIFT \/ scancode = SC_RSHIFT THEN [same EXCEPT !.shift = ~released]
        ELSE IF scancode = SC_CTRL THEN [same EXCEPT !.ctrl = ~released]
        ELSE IF scancode = SC_ALT THEN [same EXCEPT !.alt = ~released]
        ELSE IF scancode = SC_CAPS
             THEN (IF ~released THEN [same EXCEPT !.caps = ~caps_lock] ELSE same)
        ELSE IF released THEN same
        ELSE LET c == KeyByte(scancode, shift_pressed, ctrl_pressed, caps_lock)
                 r == kbd_buffer_put(kbd_buffer, kbd_buffer_head, kbd_buffer_tail, c)
             IN  IF c # 0
                 THEN [same EXCEPT !.buffer = r.buffer, !.head = r.head, !.c = c]
                 ELSE same

\* return kbd_buffer_head != kbd_buffer_tail
keyboard_haschar(head, tail) == head # tail

\* Bytes the data port delivers: 'a' pressed and released, 'c' pressed, left
\* shift pressed and released, and F1, which the tables map to 0.
PortBytes == {30, 158, 46, 42, 170, 59}

\* IRQ1: the handler runs to its end; a CPU halted in hlt goes on after it.
Irq1 ==
    /\ kbd_irqs < MaxIrqs
    /\ \E byte \in PortBytes :
          LET r == keyboard_interrupt_handler(byte)
          IN  /\ kbd_buffer' = r.buffer
              /\ kbd_buffer_head' = r.head
              /\ shift_pressed' = r.shift
              /\ ctrl_pressed' = r.ctrl
              /\ alt_pressed' = r.alt
              /\ caps_lock' = r.caps
              /\ kbd_last' = [c |-> r.c,
                              full |-> (kbd_buffer_head + 1) % KBD_BUFFER_SIZE = kbd_buffer_tail,
                              put |-> r.head # kbd_buffer_head]
              /\ kbd_accepted' = IF r.head # kbd_buffer_head
                                 THEN Append(kbd_accepted, r.buffer[kbd_buffer_head])
                                 ELSE kbd_accepted
    /\ kbd_irqs' = kbd_irqs + 1
    /\ kbd_pc' = IF kbd_pc = "halted" THEN "check" ELSE kbd_pc
    /\ UNCHANGED <<kbd_buffer_tail, kbd_c, kbd_idx, kbd_has, kbd_returned>>
    /\ UNCHANGED <<pmmVars, heapVars, vnVars, idtVars, ataVars, netVars, unitVars>>

\* Bytes of a fuller keyboard: both shift keys, ctrl and alt pressed and
\* released, caps lock pressed and released, 'c', 'a' pressed and released,
\* '1', and F1.
KeyBytes == {42, 170, 54, 182, 29, 157, 56, 184, 58, 186, 46, 30, 158, 2, 59}

\* The modifier flags.
KeyFlags == [shift |-> shift_pressed, ctrl |-> ctrl_pressed, alt |-> alt_pressed,
             caps |-> caps_lock]

\* IRQ1 with a byte of the fuller keyboard, the handler run to its end; the
\* byte is noted with the flags before and after it, the byte handed to
\* kbd_buffer_put and whether the ring took it.
Irq1_key ==
    /\ Len(key_hist) < MaxKeyEvents
    /\ \E byte \in KeyBytes :
          LET r == keyboard_interrupt_handler(byte)
          IN  /\ kbd_buffer' = r.buffer
              /\ kbd_buffer_head' = r.head
              /\ shift_pressed' = r.shift
              /\ ctrl_pressed' = r.ctrl
              /\ alt_pressed' = r.alt
              /\ caps_lock' = r.caps
              /\ kbd_last' = [c |-> r.c,
                              full |-> (kbd_buffer_head + 1) % KBD_BUFFER_SIZE = kbd_buffer_tail,
                              put |-> r.head # kbd_buffer_head]
              /\ kbd_accepted' = IF r.head # kbd_buffer_head
                                 THEN Append(kbd_accepted, r.buffer[kbd_buffer_head])
                                 ELSE kbd_accepted
              /\ key_hist' = Append(key_hist,
                                    [byte |-> byte, before |-> KeyFlags,
                                     after |-> [shift |-> r.shift, ctrl |-> r.ctrl,
                                                alt |-> r.alt, caps |-> r.caps],
                                     c |-> r.c,
                                     ring |-> r.buffer = kbd_buffer /\ r.head = kbd_buffer_head])
    /\ kbd_pc' = IF kbd_pc = "halted" THEN "check" ELSE kbd_pc
    /\ UNCHANGED <<kbd_buffer_tail, kbd_c, kbd_idx, kbd_has, kbd_irqs, kbd_returned>>
    /\ UNCHANGED <<rl, boot, pci>>
    /\ UNCHANGED <<pmmVars, heapVars, vnVars, idtVars, ataVars, netVars>>

InitKeys == key_hist = <<>>

NextKeys ==
    \/ Irq1_key

\* The bytes keyboard_getchar hands a line reader: Enter, backspace, Ctrl+C,
\* tab, escape and two letters, all bytes the scancode tables can make.
RlChars == {10, 8, 3, 9, 27, 97, 98}

\* A byte of the caller's buffer that the reader has not written.
Junk == 255

NoReadline == [pc |-> "idle", fn |-> "none", max_len |-> 1, pos |-> 0,
               buffer |-> [i \in 0..0 |-> Junk], typed |-> <<>>, out |-> <<>>, ret |-> 0]

\* A kept character that takes every byte but NUL.
rl_keeps_any(fn, c) == c # 0

\* The last branch of the loop: the bytes a line keeps.
rl_keeps(fn, c) ==
    IF fn = "shell_readline" THEN c >= 32 /\ c < 127 ELSE c >= 32

\* The bytes that erase: '\b', and DEL too in the shell's reader.
rl_erases(fn, c) ==
    IF fn = "shell_readline" THEN c = 8 \/ c = 127 ELSE c = 8

\* What Ctrl+C returns: -1 from the keyboard's reader, 0 from the shell's.
rl_cancel_ret(fn) == IF fn = "shell_readline" THEN 0 ELSE 0 - 1

\* What the shell's reader echoes, nothing for the keyboard's.
rl_echo(fn, bytes) == IF fn = "shell_readline" THEN bytes ELSE <<>>

\* A call of a line reader with a buffer of max_len bytes: pos = 0.
RlCall(fn) ==
    /\ rl.pc # "loop"
    /\ \E n \in 1..MaxLineLen :
          rl' = [pc |-> "loop", fn |-> fn, max_len |-> n, pos |-> 0,
                 buffer |-> [i \in 0..(n - 1) |-> Junk], typed |-> <<>>,
                 out |-> <<>>, ret |-> 0]
    /\ UNCHANGED <<key_hist, boot, pci>>
    /\ UNCHANGED <<pmmVars, heapVars, kbdVars, vnVars, idtVars, ataVars, netVars>>

Call_keyboard_readline == RlCall("keyboard_readline")

Call_shell_readline == RlCall("shell_readline")

\* One turn of the loop: a byte from keyboard_getchar and its branch.
Readline_char ==
    /\ rl.pc = "loop"
    /\ rl.pos < rl.max_len - 1
    /\ Len(rl.typed) < MaxTyped
    /\ \E c \in RlChars :
          LET typed == Append(rl.typed, c)
          IN  rl' =
                IF c = 10 \/ c = 13
                THEN [rl EXCEPT !.pc = "returned", !.typed = typed,
                                !.buffer[rl.pos] = 0, !.ret = rl.pos,
                                !.out = rl.out \o rl_echo(rl.fn, <<10>>)]
                ELSE IF rl_erases(rl.fn, c)
                THEN IF rl.pos > 0
                     THEN [rl EXCEPT !.typed = typed, !.pos = rl.pos - 1,
                                     !.out = rl.out \o rl_echo(rl.fn, <<8, 32, 8>>)]
                     ELSE [rl EXCEPT !.typed = typed]
                ELSE IF c = 3
                THEN [rl EXCEPT !.pc = "returned", !.typed = typed,
                                !.buffer[0] = 0, !.ret = rl_cancel_ret(rl.fn),
                                !.out = rl.out \o rl_echo(rl.fn, <<94, 67, 10>>)]
                ELSE IF rl_keeps(rl.fn, c)
                THEN [rl EXCEPT !.typed = typed, !.buffer[rl.pos] = c,
                                !.pos = rl.pos + 1,
                                !.out = rl.out \o rl_echo(rl.fn, <<c>>)]
                ELSE [rl EXCEPT !.typed = typed]
    /\ UNCHANGED <<key_hist, boot, pci>>
    /\ UNCHANGED <<pmmVars, heapVars, kbdVars, vnVars, idtVars, ataVars, netVars>>

\* The loop's condition fails: the line is ended where it stands.
Readline_full ==
    /\ rl.pc = "loop"
    /\ ~(rl.pos < rl.max_len - 1)
    /\ rl' = [rl EXCEPT !.pc = "returned", !.buffer[rl.pos] = 0, !.ret = rl.pos]
    /\ UNCHANGED <<key_hist, boot, pci>>
    /\ UNCHANGED <<pmmVars, heapVars, kbdVars, vnVars, idtVars, ataVars, netVars>>

InitReadline == rl = NoReadline

NextReadline ==
    \/ Call_keyboard_readline
    \/ Call_shell_readline
    \/ Readline_char
    \/ Readline_full

\* The boot path of _start, from the loader's hand-over to kernel_main.

\* Entries of the page directory that the boot code fills.
PD_ENTRIES == 32
\* Bit numbers: CR4.PAE, EFER.LME, CR0.PG, CR0.PE, CR4.PSE.
CR4_PAE == 5
EFER_LME == 8
CR0_PG == 31
CR0_PE == 0
CR4_PSE == 4
MULTIBOOT2_BOOT_MAGIC == 920085129

\* The four bytes of a dword store, lowest first.
DwordBytes(v) == [i \in 0..3 |-> (v \div (256 ^ i)) % 256]

\* The text buffer after a dword store at byte offset off.
VgaDword(vga, off, v) ==
    [a \in DOMAIN vga |-> IF a >= off /\ a < off + 4 THEN DwordBytes(v)[a - off] ELSE vga[a]]

\* A page directory entry with the page size bit left out.
pd_entry_small(ecx) == 2097152 * ecx + 3

\* The page directory entry of .map_pd: 2 MiB * ecx, or'ed with present,
\* writable and huge; the product stays below 2^32 for every ecx below 2048.
pd_entry(ecx) == 2097152 * ecx + 131

BootReset ==
    [pc |-> "reset", hw |-> [cpuid |-> FALSE, ext |-> FALSE, lm |-> FALSE],
     eax |-> 0, ebx |-> 0, edi |-> 0, esi |-> 0, al |-> 0, iflag |-> FALSE,
     pml4 |-> [base |-> "none", bits |-> 0], pdpt |-> [base |-> "none", bits |-> 0],
     pd |-> [i \in 0..(PD_ENTRIES - 1) |-> 0], ecx |-> 0,
     cr0 |-> {}, cr3 |-> "none", cr4 |-> {}, efer |-> {}, gdtr |-> "loader",
     cs |-> "loader", ds |-> "loader", order |-> <<>>,
     vga |-> [a \in 0..11 |-> 0]]

\* The loader hands over in protected mode, interrupts off and paging off,
\* with the magic in eax and the information pointer in ebx, on a CPU that
\* has or has not CPUID, the extended leaf and long mode.
Boot_entry ==
    /\ boot.pc = "reset"
    /\ \E c, e, l \in BOOLEAN, pse \in BOOLEAN, info \in {65536, 589824} :
          boot' = [boot EXCEPT !.pc = "_start",
                               !.hw = [cpuid |-> c, ext |-> e, lm |-> l],
                               !.eax = MULTIBOOT2_BOOT_MAGIC, !.ebx = info,
                               !.cr0 = {CR0_PE},
                               !.cr4 = IF pse THEN {CR4_PSE} ELSE {}]
    /\ UNCHANGED <<key_hist, rl, pci>>
    /\ UNCHANGED <<pmmVars, heapVars, kbdVars, vnVars, idtVars, ataVars, netVars>>

\* A step of the boot path from pc, leaving the record b.
BootStep(pc, b) ==
    /\ boot.pc = pc
    /\ boot' = b
    /\ UNCHANGED <<key_hist, rl, pci>>
    /\ UNCHANGED <<pmmVars, heapVars, kbdVars, vnVars, idtVars, ataVars, netVars>>

\* _start: the magic and the pointer are saved, cli, the stack is set.
Boot_start ==
    BootStep("_start", [boot EXCEPT !.pc = "check_cpuid", !.edi = boot.eax,
                                    !.esi = boot.ebx, !.iflag = FALSE])

\* check_cpuid: the ID bit of EFLAGS flips or the code is 'C'.
Boot_check_cpuid ==
    BootStep("check_cpuid",
             IF boot.hw.cpuid THEN [boot EXCEPT !.pc = "check_long_mode"]
             ELSE [boot EXCEPT !.pc = "error", !.al = 67])

\* check_long_mode: leaf 0x80000001 exists and has the long mode bit, or
\* the code is 'L'.
Boot_check_long_mode ==
    BootStep("check_long_mode",
             IF boot.hw.ext /\ boot.hw.lm THEN [boot EXCEPT !.pc = "setup_page_tables"]
             ELSE [boot EXCEPT !.pc = "error", !.al = 76])

\* setup_page_tables: PML4[0] and PDPT[0], present and writable.
Boot_tables ==
    BootStep("setup_page_tables",
             [boot EXCEPT !.pc = "map_pd",
                          !.pml4 = [base |-> "pdpt_table", bits |-> 3],
                          !.pdpt = [base |-> "pd_table", bits |-> 3],
                          !.ecx = 0])

\* .map_pd: one entry of the page directory, and the loop's test.
Boot_map_pd ==
    BootStep("map_pd",
             [boot EXCEPT !.pd[boot.ecx] = pd_entry(boot.ecx),
                          !.ecx = boot.ecx + 1,
                          !.pc = IF boot.ecx + 1 # PD_ENTRIES THEN "map_pd" ELSE "cr3"])

\* enable_paging: CR3 takes the PML4.
Boot_cr3 ==
    BootStep("cr3", [boot EXCEPT !.pc = "cr4", !.cr3 = "pml4_table",
                                 !.order = Append(boot.order, "cr3")])

Boot_cr4 ==
    BootStep("cr4", [boot EXCEPT !.pc = "efer", !.cr4 = boot.cr4 \cup {CR4_PAE},
                                 !.order = Append(boot.order, "cr4.pae")])

Boot_efer ==
    BootStep("efer", [boot EXCEPT !.pc = "cr0", !.efer = boot.efer \cup {EFER_LME},
                                  !.order = Append(boot.order, "efer.lme")])

Boot_cr0 ==
    BootStep("cr0", [boot EXCEPT !.pc = "lgdt", !.cr0 = boot.cr0 \cup {CR0_PG},
                                 !.order = Append(boot.order, "cr0.pg")])

Boot_lgdt ==
    BootStep("lgdt", [boot EXCEPT !.pc = "jmp", !.gdtr = "gdt64",
                                  !.order = Append(boot.order, "gdt")])

\* The far jump into the 64-bit code segment.
Boot_jmp ==
    BootStep("jmp", [boot EXCEPT !.pc = "long_mode_start", !.cs = "gdt64.code"])

\* long_mode_start: the data segments, cld, the stack, and the call.
Boot_long_mode_start ==
    BootStep("long_mode_start", [boot EXCEPT !.pc = "kernel_main", !.ds = "gdt64.data"])

\* error: "ERR: " in white on red, the code over the last cell, and hlt.
Boot_error ==
    BootStep("error",
             [boot EXCEPT !.pc = "halted",
                          !.vga = [VgaDword(VgaDword(VgaDword(boot.vga, 0, 1330794309),
                                                     4, 1329221458), 8, 1327517472)
                                   EXCEPT ![10] = boot.al]])

InitBootPath == boot = BootReset

NextBootPath ==
    \/ Boot_entry
    \/ Boot_start
    \/ Boot_check_cpuid
    \/ Boot_check_long_mode
    \/ Boot_tables
    \/ Boot_map_pd
    \/ Boot_cr3
    \/ Boot_cr4
    \/ Boot_efer
    \/ Boot_cr0
    \/ Boot_lgdt
    \/ Boot_jmp
    \/ Boot_long_mode_start
    \/ Boot_error

\* PCI enumeration and the registry's searches.

\* The vendor a slot with no function reads.
PCI_NO_VENDOR == 65535

\* What the functions on the bus can be: a virtio network card and a host
\* bridge (vendor, device, class, subclass as configuration space gives them).
PciKinds ==
    {[vendor_id |-> 6900, device_id |-> 4096, class_code |-> 2, subclass |-> 0],
     [vendor_id |-> 32902, device_id |-> 4663, class_code |-> 6, subclass |-> 0]}

\* An entry of pci_devices that was never filled (a zeroed static).
NoPciDevice ==
    [bus |-> 0, device |-> 0, function |-> 0, vendor_id |-> 0, device_id |-> 0,
     class_code |-> 0, subclass |-> 0]

PciOff ==
    [pc |-> "off", bus |-> 0, device |-> 0, func |-> 0,
     devices |-> [i \in 0..(MAX_PCI_DEVICES - 1) |-> NoPciDevice], count |-> 0,
     present |-> <<>>, examined |-> <<>>,
     last |-> [op |-> "none", a |-> 0, b |-> 0, ret |-> 0, out |-> NoPciDevice]]

\* pci_device_exists: the vendor is not 0xFFFF.
pci_device_exists(vendor) == vendor # PCI_NO_VENDOR

\* pci_read_device: the entry read from the function's configuration space.
pci_read_device(bus, device, func, kind) ==
    [bus |-> bus, device |-> device, function |-> func,
     vendor_id |-> kind.vendor_id, device_id |-> kind.device_id,
     class_code |-> kind.class_code, subclass |-> kind.subclass]

\* A registry that takes a function over its last entry once it is full.
pci_store_over_last(p, dev) ==
    IF p.count < MAX_PCI_DEVICES
    THEN [p EXCEPT !.devices[p.count] = dev, !.count = p.count + 1]
    ELSE [p EXCEPT !.devices[MAX_PCI_DEVICES - 1] = dev]

\* pci_enumerate: the entry is stored and counted while there is room.
pci_store(p, dev) ==
    IF p.count < MAX_PCI_DEVICES
    THEN [p EXCEPT !.devices[p.count] = dev, !.count = p.count + 1]
    ELSE p

\* The loops' next turn after a break out of the function loop.
PciNextDevice(p) ==
    IF p.device + 1 < PciDevices
    THEN [p EXCEPT !.device = p.device + 1, !.func = 0]
    ELSE IF p.bus + 1 < PciBuses
    THEN [p EXCEPT !.bus = p.bus + 1, !.device = 0, !.func = 0]
    ELSE [p EXCEPT !.pc = "done"]

\* The loops' next turn after the function loop's body.
PciNextFunc(p) ==
    IF p.func + 1 < PciFuncs THEN [p EXCEPT !.func = p.func + 1] ELSE PciNextDevice(p)

\* pci_init: pci_enumerate starts with an empty registry.
Call_pci_init ==
    /\ pci.pc = "off"
    /\ pci' = [pci EXCEPT !.pc = "scan", !.count = 0, !.bus = 0, !.device = 0, !.func = 0,
                          !.last = PciOff.last]
    /\ UNCHANGED <<key_hist, rl, boot>>
    /\ UNCHANGED <<pmmVars, heapVars, kbdVars, vnVars, idtVars, ataVars, netVars>>

\* One turn of the function loop of pci_enumerate: the slot's vendor is
\* read, an absent function 0 ends the device, a present function is
\* stored, and a function 0 without the multi-function bit ends the device.
Pci_probe ==
    /\ pci.pc = "scan"
    /\ \E vendor \in {k.vendor_id : k \in PciKinds} \cup {PCI_NO_VENDOR},
          header_multi \in BOOLEAN :
          /\ header_multi => (pci.func = 0 /\ pci_device_exists(vendor))
          /\ LET seen == [pci EXCEPT !.examined =
                              Append(pci.examined,
                                     [bus |-> pci.bus, device |-> pci.device,
                                      func |-> pci.func,
                                      present |-> pci_device_exists(vendor),
                                      multi |-> header_multi])]
             IN  IF ~pci_device_exists(vendor)
                 THEN pci' = IF pci.func = 0 THEN PciNextDevice(seen) ELSE PciNextFunc(seen)
                 ELSE LET kind == CHOOSE k \in PciKinds : k.vendor_id = vendor
                          dev == pci_read_device(pci.bus, pci.device, pci.func, kind)
                          stored == pci_store([seen EXCEPT !.present = Append(pci.present, dev)],
                                              dev)
                      IN  pci' = IF pci.func = 0 /\ ~header_multi
                                 THEN PciNextDevice(stored)
                                 ELSE PciNextFunc(stored)
    /\ UNCHANGED <<key_hist, rl, boot>>
    /\ UNCHANGED <<pmmVars, heapVars, kbdVars, vnVars, idtVars, ataVars, netVars>>

\* The first index below pci_device_count whose entry matches, or -1.
PciFirst(match(_)) ==
    LET hits == {i \in 0..(pci.count - 1) : match(pci.devices[i])}
    IN  IF hits = {} THEN 0 - 1 ELSE CHOOSE i \in hits : \A j \in hits : i <= j

\* A search of the registry: 1 and a copy of the first match, or 0.
PciFind(op, a, b, match(_)) ==
    /\ pci.pc \in {"off", "done"}
    /\ LET i == PciFirst(match)
       IN  pci' = [pci EXCEPT !.last =
                       [op |-> op, a |-> a, b |-> b,
                        ret |-> IF i < 0 THEN 0 ELSE 1,
                        out |-> IF i < 0 THEN pci.last.out ELSE pci.devices[i]]]
    /\ UNCHANGED <<key_hist, rl, boot>>
    /\ UNCHANGED <<pmmVars, heapVars, kbdVars, vnVars, idtVars, ataVars, netVars>>

Call_pci_find_device ==
    \E k \in PciKinds :
        LET match(e) == e.vendor_id = k.vendor_id /\ e.device_id = k.device_id
        IN  PciFind("pci_find_device", k.vendor_id, k.device_id, match)

Call_pci_find_class ==
    \E k \in PciKinds :
        LET match(e) == e.class_code = k.class_code /\ e.subclass = k.subclass
        IN  PciFind("pci_find_class", k.class_code, k.subclass, match)

InitPci == pci = PciOff

NextPci ==
    \/ Call_pci_init
    \/ Pci_probe
    \/ Call_pci_find_device
    \/ Call_pci_find_class

\* The timer with IRQ0 masked: no tick reaches the CPU.
Irq0_masked ==
    /\ FALSE
    /\ UNCHANGED vars

\* IRQ0: pic_init leaves the timer unmasked and no callback is registered for
\* vector 32, so isr_handler only sends the EOI; a CPU halted in hlt goes on
\* after it.
Irq0 ==
    /\ kbd_pc' = IF kbd_pc = "halted" THEN "check" ELSE kbd_pc
    /\ UNCHANGED <<kbd_buffer, kbd_buffer_head, kbd_buffer_tail, shift_pressed,
                   ctrl_pressed, alt_pressed, caps_lock, kbd_c, kbd_idx, kbd_has,
                   kbd_irqs, kbd_last, kbd_accepted, kbd_returned>>
    /\ UNCHANGED <<pmmVars, heapVars, vnVars, idtVars, ataVars, netVars, unitVars>>

\* keyboard_haschar called by the main flow
Call_keyboard_haschar ==
    /\ kbd_pc = "idle"
    /\ kbd_has' = keyboard_haschar(kbd_buffer_head, kbd_buffer_tail)
    /\ UNCHANGED <<kbd_buffer, kbd_buffer_head, kbd_buffer_tail, shift_pressed,
                   ctrl_pressed, alt_pressed, caps_lock, kbd_pc, kbd_c, kbd_idx,
                   kbd_irqs, kbd_last, kbd_accepted, kbd_returned>>
    /\ UNCHANGED <<pmmVars, heapVars, vnVars, idtVars, ataVars, netVars, unitVars>>

MainStep(pc, c, idx, tail, returned) ==
    /\ kbd_pc' = pc
    /\ kbd_c' = c
    /\ kbd_idx' = idx
    /\ kbd_buffer_tail' = tail
    /\ kbd_returned' = returned
    /\ UNCHANGED <<kbd_buffer, kbd_buffer_head, shift_pressed, ctrl_pressed,
                   alt_pressed, caps_lock, kbd_has, kbd_irqs, kbd_last, kbd_accepted>>
    /\ UNCHANGED <<pmmVars, heapVars, vnVars, idtVars, ataVars, netVars, unitVars>>

\* keyboard_getchar is called
Getchar_call ==
    /\ kbd_pc = "idle"
    /\ MainStep("check", kbd_c, kbd_idx, kbd_buffer_tail, kbd_returned)

\* while (!keyboard_haschar())
Getchar_check ==
    /\ kbd_pc = "check"
    /\ MainStep(IF keyboard_haschar(kbd_buffer_head, kbd_buffer_tail) THEN "index" ELSE "hlt",
                kbd_c, kbd_idx, kbd_buffer_tail, kbd_returned)

\* hlt(): the CPU stops until an interrupt has been handled
Getchar_hlt ==
    /\ kbd_pc = "hlt"
    /\ MainStep("halted", kbd_c, kbd_idx, kbd_buffer_tail, kbd_returned)

\* the read of kbd_buffer_tail in char c = kbd_buffer[kbd_buffer_tail]
Getchar_index ==
    /\ kbd_pc = "index"
    /\ MainStep("read", kbd_c, kbd_buffer_tail, kbd_buffer_tail, kbd_returned)

\* char c = kbd_buffer[kbd_buffer_tail], the load from the ring, in source order
Getchar_read ==
    /\ kbd_pc = "read"
    /\ MainStep("store", kbd_buffer[kbd_idx], kbd_idx, kbd_buffer_tail, kbd_returned)

\* kbd_buffer_tail = (kbd_buffer_tail + 1) % KBD_BUFFER_SIZE; return c
Getchar_store ==
    /\ kbd_pc = "store"
    /\ MainStep("idle", kbd_c, kbd_idx, (kbd_buffer_tail + 1) % KBD_BUFFER_SIZE,
                Append(kbd_returned, kbd_c))

\* kbd_buffer is not volatile and head and tail are: the build may place the
\* load from the ring after the store to kbd_buffer_tail.
Getchar_store_first ==
    /\ kbd_pc = "read"
    /\ MainStep("load", kbd_c, kbd_idx, (kbd_buffer_tail + 1) % KBD_BUFFER_SIZE,
                kbd_returned)

\* the load from the ring when it comes after the store; return c
Getchar_load ==
    /\ kbd_pc = "load"
    /\ MainStep("idle", kbd_buffer[kbd_idx], kbd_idx, kbd_buffer_tail,
                Append(kbd_returned, kbd_buffer[kbd_idx]))

\* keyboard_init has run: ring empty, no modifier held
InitKbd ==
    /\ kbd_buffer = [i \in 0..(KBD_BUFFER_SIZE - 1) |-> 0]
    /\ kbd_buffer_head = 0
    /\ kbd_buffer_tail = 0
    /\ shift_pressed = FALSE
    /\ ctrl_pressed = FALSE
    /\ alt_pressed = FALSE
    /\ caps_lock = FALSE
    /\ kbd_pc = "idle"
    /\ kbd_c = 0
    /\ kbd_idx = 0
    /\ kbd_has = FALSE
    /\ kbd_irqs = 0
    /\ kbd_last = [c |-> 0, full |-> FALSE, put |-> FALSE]
    /\ kbd_accepted = <<>>
    /\ kbd_returned = <<>>

NextKbd ==
    \/ Irq1
    \/ Call_keyboard_haschar
    \/ Getchar_call
    \/ Getchar_check
    \/ Getchar_hlt
    \/ Getchar_index
    \/ Getchar_read
    \/ Getchar_store
    \/ Getchar_store_first
    \/ Getchar_load

\* The steps of keyboard_getchar once it has been called.
GetcharRuns ==
    \/ Getchar_check
    \/ Getchar_hlt
    \/ Getchar_index
    \/ Getchar_read
    \/ Getchar_store
    \/ Getchar_store_first
    \/ Getchar_load

NextKbdLive ==
    \/ NextKbd
    \/ Irq0

(***************************************************************************)
(* virtio-net: the two virtqueues, the driver's send and receive, and the  *)
(* device                                                                  *)
(*                                                                         *)
(* The rings and buffers are memory the device reads and writes on its own *)
(* schedule, so every store of the driver is a step and the device can act *)
(* between any two of them.  The stores are in the order of the source,    *)
(* which is the order of the -O2 build.                                    *)
(***************************************************************************)
VIRTQ_DESC_F_WRITE == 2
NET_BUFFER_SIZE == 2048
\* sizeof(virtio_net_hdr_t): packed, 1 + 1 + 2 + 2 + 2 + 2
NET_HDR_SIZE == 10
\* uint16_t arithmetic
U16 == 65536

\* the kmalloc'ed buffer of a slot, as an address: RX buffers then TX buffers
RxBuffer(i) == 1048576 + i * NET_BUFFER_SIZE
TxBuffer(i) == 2097152 + i * NET_BUFFER_SIZE

Slots == 0..(VqSize - 1)

\* a descriptor of the table
Desc(addr, len, flags, next) == [addr |-> addr, len |-> len, flags |-> flags, next |-> next]

\* a buffer's content: its virtio-net header, and the payload as the frame
\* it is and its number of bytes
Content(hdr, data, n) == [hdr |-> hdr, data |-> data, n |-> n]

\* virtq_init: rings zeroed by kcalloc, buffers from kmalloc with no content set
virtq_init(size, buffers) ==
    [desc |-> [i \in Slots |-> Desc(0, 0, 0, 0)],
     avail |-> [idx |-> 0, ring |-> [i \in Slots |-> 0]],
     used |-> [idx |-> 0, ring |-> [i \in Slots |-> [id |-> 0, len |-> 0]]],
     size |-> size,
     last_used_idx |-> 0,
     buffers |-> buffers]

\* virtq_add_rx_buffer, its stores one by one
\* vq->desc[idx].flags left 0: the buffer not marked device-writable
rx_desc_flags_none(vq, idx) == [vq EXCEPT !.desc[idx].flags = 0]
rx_desc_addr(vq, idx) == [vq EXCEPT !.desc[idx].addr = vq.buffers[idx]]
rx_desc_len(vq, idx) == [vq EXCEPT !.desc[idx].len = NET_BUFFER_SIZE]
rx_desc_flags(vq, idx) == [vq EXCEPT !.desc[idx].flags = VIRTQ_DESC_F_WRITE]
rx_desc_next(vq, idx) == [vq EXCEPT !.desc[idx].next = 0]
\* vq->avail->idx = avail_idx + 1, the ring put left out
avail_idx_only(vq, avail_idx, idx) == [vq EXCEPT !.avail.idx = (avail_idx + 1) % U16]
\* vq->avail->ring[avail_idx % vq->size] = idx
avail_ring_put(vq, avail_idx, idx) == [vq EXCEPT !.avail.ring[avail_idx % vq.size] = idx]
\* vq->avail->idx left as it is
avail_idx_kept(vq, avail_idx) == vq
\* vq->avail->idx = avail_idx + 1
avail_idx_store(vq, avail_idx) == [vq EXCEPT !.avail.idx = (avail_idx + 1) % U16]

virtq_add_rx_buffer(vq, idx) ==
    LET v4 == rx_desc_next(rx_desc_flags(rx_desc_len(rx_desc_addr(vq, idx), idx), idx), idx)
    IN  avail_idx_store(avail_ring_put(v4, v4.avail.idx, idx), v4.avail.idx)

\* virtio_net_init's loop: every RX buffer added, in slot order
RECURSIVE AddRxBuffers(_, _)
AddRxBuffers(vq, i) ==
    IF i >= vq.size THEN vq ELSE AddRxBuffers(virtq_add_rx_buffer(vq, i), i + 1)

\* tx_idx = tx_idx, the rotation left out
tx_idx_stuck(idx, size) == idx
\* tx_idx = (tx_idx + 1) % tx_queue.size
tx_idx_next(idx, size) == (idx + 1) % size

\* rx_queue.last_used_idx == rx_queue.used->idx taken as never true
rx_always_pending(vq) == TRUE
\* !(rx_queue.last_used_idx == rx_queue.used->idx)
rx_pending(vq) == vq.last_used_idx # vq.used.idx

NoCall == [op |-> "none", data |-> 0, len |-> 0, max_len |-> 0, avail_idx |-> 0,
           desc_idx |-> 0, rlen |-> 0, pre |-> <<>>]

\* what a call can see of the driver's side of the RX queue when it starts
RxPre == [last_used_idx |-> rx_queue.last_used_idx, avail_idx |-> rx_queue.avail.idx,
          ring |-> rx_queue.avail.ring, notify |-> vn_notify,
          used_id |-> IF rx_queue.size = 0 THEN 0
                      ELSE rx_queue.used.ring[rx_queue.last_used_idx % rx_queue.size].id]

\* frames and lengths a caller sends; 2039 is one byte too long
SendFrames == {1, 2}
SendLens == {1, 2, 2039}
\* buffer limits a caller of virtio_net_receive gives
RecvLimits == {1, 64}
\* frames the device delivers, and the total lengths it reports for them
DevFrames == {7}
DevLens == {0, 10, 12}

\* virtio_net_send(data, len): the checks, and the choice of the buffer
Call_virtio_net_send ==
    /\ vn_pc = "idle"
    /\ vn_calls < MaxVnCalls
    /\ vn_calls' = vn_calls + 1
    /\ \E data \in SendFrames, len \in SendLens :
          /\ vn_call' = [NoCall EXCEPT !.op = "send", !.data = data, !.len = len]
          /\ IF virtio_initialized = 0 \/ len > NET_BUFFER_SIZE - NET_HDR_SIZE
             THEN vn_pc' = "idle" /\ vn_ret' = 0 - 1
             ELSE vn_pc' = "s_hdr" /\ vn_ret' = vn_ret
    /\ UNCHANGED <<virtio_initialized, rx_queue, tx_queue, tx_idx, vn_buffers, vn_notify,
                   vn_out, dev_tx_next, dev_rx_next, dev_tx_got, vn_sent>>
    /\ UNCHANGED <<pmmVars, heapVars, kbdVars, idtVars, ataVars, netVars, unitVars>>

\* one store of virtio_net_send into the TX queue or a TX buffer
SendStore(from, to, txq, bufs, call) ==
    /\ vn_pc = from
    /\ vn_pc' = to
    /\ tx_queue' = txq
    /\ vn_buffers' = bufs
    /\ vn_call' = call
    /\ UNCHANGED <<virtio_initialized, rx_queue, tx_idx, vn_notify, vn_ret, vn_out,
                   vn_calls, dev_tx_next, dev_rx_next, dev_tx_got, vn_sent>>
    /\ UNCHANGED <<pmmVars, heapVars, kbdVars, idtVars, ataVars, netVars, unitVars>>

\* memset(hdr, 0, sizeof(*hdr))
Send_hdr ==
    SendStore("s_hdr", "s_copy", tx_queue,
              [vn_buffers EXCEPT ![tx_queue.buffers[tx_idx]].hdr = "zero"], vn_call)

\* memcpy(buffer + sizeof(virtio_net_hdr_t), data, len)
Send_copy ==
    SendStore("s_copy", "s_addr", tx_queue,
              [vn_buffers EXCEPT ![tx_queue.buffers[tx_idx]].data = vn_call.data,
                                 ![tx_queue.buffers[tx_idx]].n = vn_call.len], vn_call)

\* tx_queue.desc[tx_idx].addr = (uint64_t)(uintptr_t)buffer
Send_desc_addr ==
    SendStore("s_addr", "s_len",
              [tx_queue EXCEPT !.desc[tx_idx].addr = tx_queue.buffers[tx_idx]],
              vn_buffers, vn_call)

\* the descriptor length with the header left out
tx_desc_len_no_hdr(len) == len
\* sizeof(virtio_net_hdr_t) + len
tx_desc_len(len) == NET_HDR_SIZE + len

\* tx_queue.desc[tx_idx].len = sizeof(virtio_net_hdr_t) + len
Send_desc_len ==
    SendStore("s_len", "s_flags",
              [tx_queue EXCEPT !.desc[tx_idx].len = tx_desc_len(vn_call.len)],
              vn_buffers, vn_call)

\* tx_queue.desc[tx_idx].flags = 0
Send_desc_flags ==
    SendStore("s_flags", "s_next", [tx_queue EXCEPT !.desc[tx_idx].flags = 0],
              vn_buffers, vn_call)

\* tx_queue.desc[tx_idx].next = 0
Send_desc_next ==
    SendStore("s_next", "s_ring", [tx_queue EXCEPT !.desc[tx_idx].next = 0],
              vn_buffers, vn_call)

\* uint16_t avail_idx = tx_queue.avail->idx;
\* tx_queue.avail->ring[avail_idx % tx_queue.size] = tx_idx
Send_ring ==
    SendStore("s_ring", "s_idx", avail_ring_put(tx_queue, tx_queue.avail.idx, tx_idx),
              vn_buffers, [vn_call EXCEPT !.avail_idx = tx_queue.avail.idx])

\* the compiler barrier, then tx_queue.avail->idx = avail_idx + 1
Send_idx ==
    /\ vn_pc = "s_idx"
    /\ vn_pc' = "s_notify"
    /\ tx_queue' = avail_idx_store(tx_queue, vn_call.avail_idx)
    /\ vn_sent' = Append(vn_sent, [slot |-> tx_idx, data |-> vn_call.data, len |-> vn_call.len])
    /\ UNCHANGED <<virtio_initialized, rx_queue, tx_idx, vn_buffers, vn_notify, vn_call,
                   vn_ret, vn_out, vn_calls, dev_tx_next, dev_rx_next, dev_tx_got>>
    /\ UNCHANGED <<pmmVars, heapVars, kbdVars, idtVars, ataVars, netVars, unitVars>>

\* outw(io_base + VIRTIO_PCI_QUEUE_NOTIFY, 1)
Send_notify ==
    /\ vn_pc = "s_notify"
    /\ vn_pc' = "s_done"
    /\ vn_notify' = [vn_notify EXCEPT ![1] = @ + 1]
    /\ UNCHANGED <<virtio_initialized, rx_queue, tx_queue, tx_idx, vn_buffers, vn_call,
                   vn_ret, vn_out, vn_calls, dev_tx_next, dev_rx_next, dev_tx_got, vn_sent>>
    /\ UNCHANGED <<pmmVars, heapVars, kbdVars, idtVars, ataVars, netVars, unitVars>>

\* tx_idx = (tx_idx + 1) % tx_queue.size; return 0
Send_done ==
    /\ vn_pc = "s_done"
    /\ vn_pc' = "idle"
    /\ tx_idx' = tx_idx_next(tx_idx, tx_queue.size)
    /\ vn_ret' = 0
    /\ UNCHANGED <<virtio_initialized, rx_queue, tx_queue, vn_buffers, vn_notify, vn_call,
                   vn_out, vn_calls, dev_tx_next, dev_rx_next, dev_tx_got, vn_sent>>
    /\ UNCHANGED <<pmmVars, heapVars, kbdVars, idtVars, ataVars, netVars, unitVars>>

\* The device takes the next TX available entry: it reads the ring entry, the
\* descriptor and the buffer, and reports the descriptor in the used ring.
Dev_tx ==
    /\ dev_tx_next # tx_queue.avail.idx
    /\ LET e == tx_queue.avail.ring[dev_tx_next % tx_queue.size]
           d == tx_queue.desc[e]
       IN  /\ dev_tx_got' = Append(dev_tx_got,
                                   [id |-> e, desc |-> d,
                                    content |-> IF d.addr \in DOMAIN vn_buffers
                                                THEN vn_buffers[d.addr]
                                                ELSE Content("junk", 0, 0)])
           /\ tx_queue' = [tx_queue EXCEPT
                             !.used.ring[tx_queue.used.idx % tx_queue.size] =
                                 [id |-> e, len |-> 0],
                             !.used.idx = (tx_queue.used.idx + 1) % U16]
    /\ dev_tx_next' = (dev_tx_next + 1) % U16
    /\ UNCHANGED <<virtio_initialized, rx_queue, tx_idx, vn_buffers, vn_notify, vn_pc,
                   vn_call, vn_ret, vn_out, vn_calls, dev_rx_next, vn_sent>>
    /\ UNCHANGED <<pmmVars, heapVars, kbdVars, idtVars, ataVars, netVars, unitVars>>

\* virtio_net_receive(buffer, max_len): the checks
Call_virtio_net_receive ==
    /\ vn_pc = "idle"
    /\ vn_calls < MaxVnCalls
    /\ vn_calls' = vn_calls + 1
    /\ \E max_len \in RecvLimits :
          vn_call' = [NoCall EXCEPT !.op = "receive", !.max_len = max_len, !.pre = RxPre]
    /\ IF virtio_initialized = 0
       THEN vn_pc' = "idle" /\ vn_ret' = 0 - 1
       ELSE IF ~rx_pending(rx_queue)
            THEN vn_pc' = "idle" /\ vn_ret' = 0
            ELSE vn_pc' = "r_elem" /\ vn_ret' = vn_ret
    /\ UNCHANGED <<virtio_initialized, rx_queue, tx_queue, tx_idx, vn_buffers, vn_notify,
                   vn_out, dev_tx_next, dev_rx_next, dev_tx_got, vn_sent>>
    /\ UNCHANGED <<pmmVars, heapVars, kbdVars, idtVars, ataVars, netVars, unitVars>>

\* one step of virtio_net_receive on the RX queue
RecvStep(from, to, rxq, call, out) ==
    /\ vn_pc = from
    /\ vn_pc' = to
    /\ rx_queue' = rxq
    /\ vn_call' = call
    /\ vn_out' = out
    /\ UNCHANGED <<virtio_initialized, tx_queue, tx_idx, vn_buffers, vn_notify, vn_ret,
                   vn_calls, dev_tx_next, dev_rx_next, dev_tx_got, vn_sent>>
    /\ UNCHANGED <<pmmVars, heapVars, kbdVars, idtVars, ataVars, netVars, unitVars>>

\* used_idx = last_used_idx % size; desc_idx = used->ring[used_idx].id;
\* len = used->ring[used_idx].len
Recv_elem ==
    LET e == rx_queue.used.ring[rx_queue.last_used_idx % rx_queue.size]
    IN  RecvStep("r_elem", "r_adv", rx_queue,
                 [vn_call EXCEPT !.desc_idx = e.id, !.rlen = e.len], vn_out)

\* rx_queue.last_used_idx++
Recv_adv ==
    RecvStep("r_adv", "r_copy",
             [rx_queue EXCEPT !.last_used_idx = (rx_queue.last_used_idx + 1) % U16],
             vn_call, vn_out)

\* len -= sizeof(virtio_net_hdr_t), the cut to max_len left out
recv_len_unclamped(len, max_len) == IF len > NET_HDR_SIZE THEN len - NET_HDR_SIZE ELSE 0
\* the bytes virtio_net_receive hands over for a reported length and a limit
recv_len(len, max_len) ==
    IF len > NET_HDR_SIZE
    THEN (IF len - NET_HDR_SIZE > max_len THEN max_len ELSE len - NET_HDR_SIZE)
    ELSE 0

\* if (len > sizeof(virtio_net_hdr_t)) { ... memcpy(...) } else len = 0
Recv_copy ==
    LET len == recv_len(vn_call.rlen, vn_call.max_len)
    IN  RecvStep("r_copy", "r_addr", rx_queue, [vn_call EXCEPT !.rlen = len],
                 IF vn_call.rlen > NET_HDR_SIZE
                 THEN [data |-> vn_buffers[rx_queue.buffers[vn_call.desc_idx]].data, n |-> len]
                 ELSE vn_out)

\* virtq_add_rx_buffer(&rx_queue, desc_idx), store by store
Recv_desc_addr ==
    RecvStep("r_addr", "r_len", rx_desc_addr(rx_queue, vn_call.desc_idx), vn_call, vn_out)

Recv_desc_len ==
    RecvStep("r_len", "r_flags", rx_desc_len(rx_queue, vn_call.desc_idx), vn_call, vn_out)

Recv_desc_flags ==
    RecvStep("r_flags", "r_next", rx_desc_flags(rx_queue, vn_call.desc_idx), vn_call, vn_out)

Recv_desc_next ==
    RecvStep("r_next", "r_ring", rx_desc_next(rx_queue, vn_call.desc_idx), vn_call, vn_out)

Recv_ring ==
    RecvStep("r_ring", "r_idx",
             avail_ring_put(rx_queue, rx_queue.avail.idx, vn_call.desc_idx),
             [vn_call EXCEPT !.avail_idx = rx_queue.avail.idx], vn_out)

Recv_idx ==
    RecvStep("r_idx", "r_notify", avail_idx_store(rx_queue, vn_call.avail_idx),
             vn_call, vn_out)

\* outw(io_base + VIRTIO_PCI_QUEUE_NOTIFY, 0); return len
Recv_notify ==
    /\ vn_pc = "r_notify"
    /\ vn_pc' = "idle"
    /\ vn_notify' = [vn_notify EXCEPT ![0] = @ + 1]
    /\ vn_ret' = vn_call.rlen
    /\ UNCHANGED <<virtio_initialized, rx_queue, tx_queue, tx_idx, vn_buffers, vn_call,
                   vn_out, vn_calls, dev_tx_next, dev_rx_next, dev_tx_got, vn_sent>>
    /\ UNCHANGED <<pmmVars, heapVars, kbdVars, idtVars, ataVars, netVars, unitVars>>

\* The device takes the next RX available entry: it writes a frame of some
\* length into the buffer the descriptor names and reports it in the used ring.
Dev_rx ==
    /\ dev_rx_next # rx_queue.avail.idx
    /\ \E frame \in DevFrames, len \in DevLens :
          LET e == rx_queue.avail.ring[dev_rx_next % rx_queue.size]
              d == rx_queue.desc[e]
              n == IF len > NET_HDR_SIZE THEN len - NET_HDR_SIZE ELSE 0
          IN  /\ vn_buffers' = IF d.addr \in DOMAIN vn_buffers
                               THEN [vn_buffers EXCEPT ![d.addr] = Content("dev", frame, n)]
                               ELSE vn_buffers
              /\ rx_queue' = [rx_queue EXCEPT
                                !.used.ring[rx_queue.used.idx % rx_queue.size] =
                                    [id |-> e, len |-> len],
                                !.used.idx = (rx_queue.used.idx + 1) % U16]
    /\ dev_rx_next' = (dev_rx_next + 1) % U16
    /\ UNCHANGED <<virtio_initialized, tx_queue, tx_idx, vn_notify, vn_pc, vn_call, vn_ret,
                   vn_out, vn_calls, dev_tx_next, dev_tx_got, vn_sent>>
    /\ UNCHANGED <<pmmVars, heapVars, kbdVars, idtVars, ataVars, netVars, unitVars>>

\* virtio_net_init has found the device and returned 0: both queues set up,
\* every RX buffer made available, the RX doorbell written once.
InitVirtio ==
    /\ virtio_initialized = 1
    /\ rx_queue = AddRxBuffers(virtq_init(VqSize, [i \in Slots |-> RxBuffer(i)]), 0)
    /\ tx_queue = virtq_init(VqSize, [i \in Slots |-> TxBuffer(i)])
    /\ tx_idx = 0
    /\ vn_buffers = [a \in {RxBuffer(i) : i \in Slots} \cup {TxBuffer(i) : i \in Slots} |->
                        Content("junk", 0, 0)]
    /\ vn_notify = [q \in {0, 1} |-> IF q = 0 THEN 1 ELSE 0]
    /\ vn_pc = "idle"
    /\ vn_call = NoCall
    /\ vn_ret = 0
    /\ vn_out = [data |-> 0, n |-> 0]
    /\ vn_calls = 0
    /\ dev_tx_next = 0
    /\ dev_rx_next = 0
    /\ dev_tx_got = <<>>
    /\ vn_sent = <<>>

\* The packets received since virtio_net_init at which a run may start: none,
\* and two short of the 16-bit indices' wrap.
RxBases == {0, U16 - 2}

\* The RX queue after n packets were received in order and their buffers
\* re-added: the three indices have advanced by n modulo 2^16 and the
\* available ring holds the slots in their first order again.
RxAfter(vq, n) ==
    [vq EXCEPT !.avail.idx = (vq.avail.idx + n) % U16,
               !.used.idx = n % U16,
               !.last_used_idx = n % U16]

\* The driver after virtio_net_init and a number of received packets.
InitVirtioWrap ==
    /\ virtio_initialized = 1
    /\ \E n \in RxBases :
          /\ rx_queue = RxAfter(AddRxBuffers(virtq_init(VqSize, [i \in Slots |-> RxBuffer(i)]), 0), n)
          /\ dev_rx_next = n % U16
    /\ tx_queue = virtq_init(VqSize, [i \in Slots |-> TxBuffer(i)])
    /\ tx_idx = 0
    /\ vn_buffers = [a \in {RxBuffer(i) : i \in Slots} \cup {TxBuffer(i) : i \in Slots} |->
                        Content("junk", 0, 0)]
    /\ vn_notify = [q \in {0, 1} |-> IF q = 0 THEN 1 ELSE 0]
    /\ vn_pc = "idle"
    /\ vn_call = NoCall
    /\ vn_ret = 0
    /\ vn_out = [data |-> 0, n |-> 0]
    /\ vn_calls = 0
    /\ dev_tx_next = 0
    /\ dev_tx_got = <<>>
    /\ vn_sent = <<>>

\* A loopback device: it takes the next TX available entry and the next RX
\* available entry, copies header and payload of the TX buffer into the RX
\* buffer, and reports both in their used rings, the RX one with the total
\* length of the TX descriptor.
Dev_echo ==
    /\ dev_tx_next # tx_queue.avail.idx
    /\ dev_rx_next # rx_queue.avail.idx
    /\ LET te == tx_queue.avail.ring[dev_tx_next % tx_queue.size]
           td == tx_queue.desc[te]
           re == rx_queue.avail.ring[dev_rx_next % rx_queue.size]
           rd == rx_queue.desc[re]
           c == IF td.addr \in DOMAIN vn_buffers THEN vn_buffers[td.addr]
                ELSE Content("junk", 0, 0)
           n == IF td.len > NET_HDR_SIZE THEN td.len - NET_HDR_SIZE ELSE 0
       IN  /\ dev_tx_got' = Append(dev_tx_got, [id |-> te, desc |-> td, content |-> c])
           /\ vn_buffers' = IF rd.addr \in DOMAIN vn_buffers
                            THEN [vn_buffers EXCEPT ![rd.addr] = Content(c.hdr, c.data, n)]
                            ELSE vn_buffers
           /\ tx_queue' = [tx_queue EXCEPT
                             !.used.ring[tx_queue.used.idx % tx_queue.size] =
                                 [id |-> te, len |-> 0],
                             !.used.idx = (tx_queue.used.idx + 1) % U16]
           /\ rx_queue' = [rx_queue EXCEPT
                             !.used.ring[rx_queue.used.idx % rx_queue.size] =
                                 [id |-> re, len |-> td.len],
                             !.used.idx = (rx_queue.used.idx + 1) % U16]
    /\ dev_tx_next' = (dev_tx_next + 1) % U16
    /\ dev_rx_next' = (dev_rx_next + 1) % U16
    /\ UNCHANGED <<virtio_initialized, tx_idx, vn_notify, vn_pc, vn_call, vn_ret,
                   vn_out, vn_calls, vn_sent>>
    /\ UNCHANGED <<pmmVars, heapVars, kbdVars, idtVars, ataVars, netVars, unitVars>>

NextVirtio ==
    \/ Call_virtio_net_send
    \/ Send_hdr
    \/ Send_copy
    \/ Send_desc_addr
    \/ Send_desc_len
    \/ Send_desc_flags
    \/ Send_desc_next
    \/ Send_ring
    \/ Send_idx
    \/ Send_notify
    \/ Send_done
    \/ Call_virtio_net_receive
    \/ Recv_elem
    \/ Recv_adv
    \/ Recv_copy
    \/ Recv_desc_addr
    \/ Recv_desc_len
    \/ Recv_desc_flags
    \/ Recv_desc_next
    \/ Recv_ring
    \/ Recv_idx
    \/ Recv_notify
    \/ Dev_tx
    \/ Dev_rx

(***************************************************************************)
(* Interrupts: idt_init, the PICs, and the dispatch through isr_handler    *)
(***************************************************************************)
PIC1_COMMAND == 32
PIC1_DATA == 33
PIC2_COMMAND == 160
PIC2_DATA == 161
PIC_EOI == 32
ICW1_INIT == 17
ICW4_8086 == 1

\* The vectors followed: exceptions 0, 14 and 31, master IRQs 32, 33 and 39,
\* slave IRQs 40 and 47.
IdtVectors == {0, 14, 31, 32, 33, 39, 40, 47}

\* ports.h
cli(flag) == FALSE
sti(flag) == TRUE

\* One 8259: after ICW1 on its command port the next three writes to its
\* data port are the vector offset, the cascade wiring and the mode; any
\* later write to the data port is the mask.
pic_write(chip, is_data, value) ==
    IF ~is_data
    THEN (IF value = ICW1_INIT THEN [chip EXCEPT !.expect = "icw2"] ELSE chip)
    ELSE IF chip.expect = "icw2" THEN [chip EXCEPT !.offset = value, !.expect = "icw3"]
    ELSE IF chip.expect = "icw3" THEN [chip EXCEPT !.expect = "icw4"]
    ELSE IF chip.expect = "icw4" THEN [chip EXCEPT !.expect = "mask"]
    ELSE [chip EXCEPT !.mask = value]

\* outb to one of the four PIC ports
pic_outb(p, port, value) ==
    IF port = PIC1_COMMAND THEN [p EXCEPT !.master = pic_write(p.master, FALSE, value)]
    ELSE IF port = PIC1_DATA THEN [p EXCEPT !.master = pic_write(p.master, TRUE, value)]
    ELSE IF port = PIC2_COMMAND THEN [p EXCEPT !.slave = pic_write(p.slave, FALSE, value)]
    ELSE IF port = PIC2_DATA THEN [p EXCEPT !.slave = pic_write(p.slave, TRUE, value)]
    ELSE p

\* pic_init: its port writes in order (io_wait writes port 0x80 only)
pic_init ==
    << <<PIC1_COMMAND, ICW1_INIT>>, <<PIC2_COMMAND, ICW1_INIT>>,
       <<PIC1_DATA, 32>>, <<PIC2_DATA, 40>>,
       <<PIC1_DATA, 4>>, <<PIC2_DATA, 2>>,
       <<PIC1_DATA, ICW4_8086>>, <<PIC2_DATA, ICW4_8086>>,
       <<PIC1_DATA, 252>>, <<PIC2_DATA, 255>> >>

\* pic_send_eoi with the write to the slave left out
pic_send_eoi_master_only(irq) == << <<"outb", PIC1_COMMAND, PIC_EOI>> >>

\* pic_send_eoi(irq): its port writes in order
pic_send_eoi(irq) ==
    (IF irq >= 8 THEN << <<"outb", PIC2_COMMAND, PIC_EOI>> >> ELSE <<>>)
       \o << <<"outb", PIC1_COMMAND, PIC_EOI>> >>

\* idt_init with sti moved before pic_init
idt_init_sti_early ==
    <<"clear_handlers", "idt_ptr", "clear_entries", "exception_gates", "irq_gates",
      "sti", "pic_init", "lidt">>

\* idt_init: its steps in order
idt_init ==
    <<"clear_handlers", "idt_ptr", "clear_entries", "exception_gates", "irq_gates",
      "pic_init", "lidt", "sti">>

\* the step of idt_init that is next, "done" after the last
IdtNext == IF idt_step <= Len(idt_init) THEN idt_init[idt_step] ELSE "done"

\* one step of idt_init that is not a write to a PIC
IdtInitStep(name, h, gates, ptr, reg, flag) ==
    /\ IdtNext = name
    /\ idt_step' = idt_step + 1
    /\ handlers' = h
    /\ idt' = gates
    /\ idt_ptr' = ptr
    /\ idtr' = reg
    /\ cpu_if' = flag
    /\ UNCHANGED <<pic, pic_step, isr_pc, isr_vector, isr_source, isr_saved_if, isr_log,
                   idt_dispatches>>
    /\ UNCHANGED <<pmmVars, heapVars, kbdVars, vnVars, ataVars, netVars, unitVars>>

\* for (i < 256) handlers[i] = NULL
Idt_clear_handlers ==
    IdtInitStep("clear_handlers", [v \in IdtVectors |-> FALSE], idt, idt_ptr, idtr, cpu_if)

\* idt_ptr.limit = sizeof(idt) - 1; idt_ptr.base = &idt
Idt_idt_ptr ==
    IdtInitStep("idt_ptr", handlers, idt, "idt", idtr, cpu_if)

\* for (i < 256) idt_set_entry(i, 0, 0, 0)
Idt_clear_entries ==
    IdtInitStep("clear_entries", handlers, [v \in IdtVectors |-> "empty"], idt_ptr, idtr,
                cpu_if)

\* idt_set_entry(n, isr<n>, KERNEL_CS, INT_GATE) for n in 0 .. 31
Idt_exception_gates ==
    IdtInitStep("exception_gates", handlers,
                [v \in IdtVectors |-> IF v < 32 THEN "stub" ELSE idt[v]], idt_ptr, idtr,
                cpu_if)

\* idt_set_entry(32 + n, irq<n>, KERNEL_CS, INT_GATE) for n in 0 .. 15
Idt_irq_gates ==
    IdtInitStep("irq_gates", handlers,
                [v \in IdtVectors |-> IF v >= 32 /\ v < 48 THEN "stub" ELSE idt[v]],
                idt_ptr, idtr, cpu_if)

\* pic_init(): its next port write
Pic_init_write ==
    /\ IdtNext = "pic_init"
    /\ pic' = pic_outb(pic, pic_init[pic_step][1], pic_init[pic_step][2])
    /\ IF pic_step < Len(pic_init)
       THEN pic_step' = pic_step + 1 /\ idt_step' = idt_step
       ELSE pic_step' = 1 /\ idt_step' = idt_step + 1
    /\ UNCHANGED <<cpu_if, handlers, idt, idt_ptr, idtr, isr_pc, isr_vector, isr_source,
                   isr_saved_if, isr_log, idt_dispatches>>
    /\ UNCHANGED <<pmmVars, heapVars, kbdVars, vnVars, ataVars, netVars, unitVars>>

\* lidt idt_ptr
Idt_lidt ==
    IdtInitStep("lidt", handlers, idt, idt_ptr, idt_ptr, cpu_if)

\* sti()
Idt_sti ==
    IdtInitStep("sti", handlers, idt, idt_ptr, idtr, sti(cpu_if))

\* idt_set_handler(vector, handler), called by the kernel after idt_init
Call_idt_set_handler ==
    /\ IdtNext = "done"
    /\ isr_pc = "none"
    /\ \E v \in IdtVectors, h \in BOOLEAN : handlers' = [handlers EXCEPT ![v] = h]
    /\ UNCHANGED <<cpu_if, idt, idt_ptr, idtr, pic, idt_step, pic_step, isr_pc, isr_vector,
                   isr_source, isr_saved_if, isr_log, idt_dispatches>>
    /\ UNCHANGED <<pmmVars, heapVars, kbdVars, vnVars, ataVars, netVars, unitVars>>

\* The vectors a PIC can raise now: IRQ n of the master at its offset + n when
\* its mask bit n is clear, IRQ 8 + n of the slave likewise and when the
\* master's cascade line 2 is not masked.
PicVectors ==
    {v \in IdtVectors :
        \/ \E n \in 0..7 : v = pic.master.offset + n /\ Bit(pic.master.mask, n) = 0
        \/ \E n \in 0..7 : /\ v = pic.slave.offset + n
                           /\ Bit(pic.slave.mask, n) = 0
                           /\ Bit(pic.master.mask, 2) = 0}

\* the CPU enters the stub of vector v through its interrupt gate, which
\* clears the interrupt flag; the stub calls isr_handler(v, error_code)
Enter(v, source) ==
    /\ isr_pc = "none"
    /\ idt_dispatches < MaxDispatches
    /\ idtr = "idt"
    /\ idt[v] = "stub"
    /\ idt_dispatches' = idt_dispatches + 1
    /\ isr_pc' = "entry"
    /\ isr_vector' = v
    /\ isr_source' = source
    /\ isr_saved_if' = cpu_if
    /\ cpu_if' = FALSE
    /\ isr_log' = <<>>
    /\ UNCHANGED <<handlers, idt, idt_ptr, idtr, pic, idt_step, pic_step>>
    /\ UNCHANGED <<pmmVars, heapVars, kbdVars, vnVars, ataVars, netVars, unitVars>>

\* A PIC interrupts the CPU: only with the interrupt flag set.
Hw_irq ==
    /\ cpu_if
    /\ \E v \in PicVectors : Enter(v, "irq")

\* The running kernel raises an exception or executes int n.
Trap ==
    /\ IdtNext = "done"
    /\ \E v \in IdtVectors : Enter(v, "trap")

\* vector < 32 with the test never true
never_halts(vector) == FALSE
\* if (vector < 32): an unhandled vector that halts the CPU
unhandled_halts(vector) == vector < 32

IsrStep(from, to, flag, log) ==
    /\ isr_pc = from
    /\ isr_pc' = to
    /\ cpu_if' = flag
    /\ isr_log' = log
    /\ UNCHANGED <<handlers, idt, idt_ptr, idtr, pic, idt_step, pic_step, isr_vector,
                   isr_source, isr_saved_if, idt_dispatches>>
    /\ UNCHANGED <<pmmVars, heapVars, kbdVars, vnVars, ataVars, netVars, unitVars>>

\* if (handlers[vector]) ... else if (vector < 32) ...
Isr_check ==
    IsrStep("entry",
            IF handlers[isr_vector] THEN "callback"
            ELSE IF unhandled_halts(isr_vector) THEN "cli"
            ELSE "eoi",
            cpu_if, isr_log)

\* handlers[vector](), which returns
Isr_callback ==
    IsrStep("callback", "eoi", cpu_if, Append(isr_log, <<"callback", isr_vector, 0>>))

\* cli()
Isr_cli ==
    IsrStep("cli", "msg", cli(cpu_if), isr_log)

\* the message and the vector written to the VGA buffer
Isr_msg ==
    IsrStep("msg", "hlt", cpu_if, isr_log)

\* if (vector >= 32 && vector < 48) pic_send_eoi(vector - 32)
Isr_eoi ==
    IsrStep("eoi", "ret", cpu_if,
            IF isr_vector >= 32 /\ isr_vector < 48
            THEN isr_log \o pic_send_eoi(isr_vector - 32)
            ELSE isr_log)

\* isr_handler returns; isr_common restores the registers; iretq
Isr_ret ==
    IsrStep("ret", "none", isr_saved_if, isr_log)

\* _start has executed cli; idt_init has not begun.  The tables are zero
\* (.bss), the IDT register is not the kernel's, the PICs are as the firmware
\* left them, taken here with no IRQ masked.
InitIdt ==
    /\ cpu_if = FALSE
    /\ handlers = [v \in IdtVectors |-> FALSE]
    /\ idt = [v \in IdtVectors |-> "empty"]
    /\ idt_ptr = "zero"
    /\ idtr = "firmware"
    /\ pic = [master |-> [expect |-> "mask", offset |-> 8, mask |-> 0],
              slave |-> [expect |-> "mask", offset |-> 112, mask |-> 0]]
    /\ idt_step = 1
    /\ pic_step = 1
    /\ isr_pc = "none"
    /\ isr_vector = 0
    /\ isr_source = "none"
    /\ isr_saved_if = FALSE
    /\ isr_log = <<>>
    /\ idt_dispatches = 0

NextIdt ==
    \/ Idt_clear_handlers
    \/ Idt_idt_ptr
    \/ Idt_clear_entries
    \/ Idt_exception_gates
    \/ Idt_irq_gates
    \/ Pic_init_write
    \/ Idt_lidt
    \/ Idt_sti
    \/ Call_idt_set_handler
    \/ Hw_irq
    \/ Trap
    \/ Isr_check
    \/ Isr_callback
    \/ Isr_cli
    \/ Isr_msg
    \/ Isr_eoi
    \/ Isr_ret

(***************************************************************************)
(* ATA/IDE disk driver (ata.c), PIO mode, against the drive on the bus.    *)
(* The driver's functions advance one port access (or one run of register  *)
(* writes) at a time; the drive leaves BSY on its own steps, so a wait of   *)
(* the driver may see it ready, see an error, or run out of polls.         *)
(***************************************************************************)
ATA_PRIMARY_IO == 496
ATA_PRIMARY_CTRL == 1014
ATA_SECONDARY_IO == 368
ATA_SECONDARY_CTRL == 886
ATA_REG_DATA == 0
ATA_REG_SECCOUNT == 2
ATA_REG_LBA_LO == 3
ATA_REG_LBA_MID == 4
ATA_REG_LBA_HI == 5
ATA_REG_DRIVE == 6
ATA_REG_STATUS == 7
ATA_REG_COMMAND == 7
ATA_CMD_READ_PIO == 32
ATA_CMD_WRITE_PIO == 48
ATA_CMD_IDENTIFY == 236
ATA_SR_BSY == 128
ATA_SR_DRDY == 64
ATA_SR_DSC == 16
ATA_SR_DRQ == 8
ATA_SR_ERR == 1
ATA_DRIVE_MASTER == 224

\* a & b and a | b on bytes
AndBits(a, b) ==
    LET f[k \in 0..8] == IF k = 8 THEN 0
                         ELSE (Bit(a, k) * Bit(b, k) * Pow2(k)) + f[k + 1]
    IN  f[0]
OrBits(a, b) ==
    LET f[k \in 0..8] == IF k = 8 THEN 0
                         ELSE ((IF Bit(a, k) + Bit(b, k) > 0 THEN 1 ELSE 0) * Pow2(k)) + f[k + 1]
    IN  f[0]

\* What the first word of a caller's buffer holds before a read fills it.
Unwritten == 0 - 1

\* Words the callers' buffers hold: room for MaxAtaCount sectors.
BufferWords == MaxAtaCount * SectorWords
FreshBuffer == [k \in 1..BufferWords |-> Unwritten]
AtaBuffers == {[k \in 1..BufferWords |-> (16 * p) + k] : p \in {1, 2}}
\* Sector addresses the callers use: the low byte, the middle byte and the
\* four bits kept in the drive register all take part.
AtaLbas == {1, 16777472}

\* The machines the kernel may boot on: no controller, a primary controller
\* with an ATA disk or with an ATAPI drive, a secondary controller with no drive.
AtaHardware ==
    {[bus |-> "none", dev |-> "none"],
     [bus |-> "primary", dev |-> "ata"],
     [bus |-> "primary", dev |-> "atapi"],
     [bus |-> "secondary", dev |-> "none"]}

\* The drive: task-file registers, the command in progress, sectors left,
\* the sector address it is at and the words of that sector moved so far.
DriveIdle ==
    [phase |-> "idle", cmd |-> "none", left |-> 0, lba |-> 0, buf |-> <<>>,
     drive |-> 0, seccount |-> 0, lba_lo |-> 0, lba_mid |-> 0, lba_hi |-> 0]

\* A sector of the disk; sectors never written hold zeros.
ZeroSector == [k \in 1..SectorWords |-> 0]
SectorOf(dsk, lba) == IF lba \in DOMAIN dsk THEN dsk[lba] ELSE ZeroSector
DiskPut(dsk, lba, words) ==
    [l \in (DOMAIN dsk) \cup {lba} |-> IF l = lba THEN words ELSE dsk[l]]

\* The channel at this I/O base has a controller.
ControllerAt(hw, base) ==
    \/ hw.bus = "primary" /\ base = ATA_PRIMARY_IO
    \/ hw.bus = "secondary" /\ base = ATA_SECONDARY_IO

\* inb(base + ATA_REG_STATUS): a floating bus reads 0xFF, a channel with no
\* drive reads 0.
DrvStatus(hw, d, base) ==
    IF ~ControllerAt(hw, base) THEN 255
    ELSE IF hw.dev = "none" THEN 0
    ELSE CASE d.phase = "busy" -> ATA_SR_BSY
           [] d.phase = "drq" -> ATA_SR_DRDY + ATA_SR_DSC + ATA_SR_DRQ
           [] d.phase = "err" -> ATA_SR_DRDY + ATA_SR_DSC + ATA_SR_ERR
           [] OTHER -> ATA_SR_DRDY + ATA_SR_DSC

\* The sector address and the sector count the drive takes from its registers
\* (LBA-28; a count register of 0 means 256).
DrvLba(d) ==
    ((d.drive % 16) * 16777216) + (d.lba_hi * 65536) + (d.lba_mid * 256) + d.lba_lo
DrvCount(d) == IF d.seccount = 0 THEN 256 ELSE d.seccount

\* A command written to the command register.
DrvCommand(hw, d, cmd) ==
    IF hw.dev = "atapi"
    THEN [d EXCEPT !.phase = "err", !.cmd = "none", !.lba_mid = 20, !.lba_hi = 235]
    ELSE IF hw.dev # "ata" THEN d
    ELSE IF cmd = ATA_CMD_READ_PIO
         THEN [d EXCEPT !.phase = "busy", !.cmd = "read", !.left = DrvCount(d),
                        !.lba = DrvLba(d), !.buf = <<>>]
    ELSE IF cmd = ATA_CMD_WRITE_PIO
         THEN [d EXCEPT !.phase = "busy", !.cmd = "write", !.left = DrvCount(d),
                        !.lba = DrvLba(d), !.buf = <<>>]
    ELSE IF cmd = ATA_CMD_IDENTIFY
         THEN [d EXCEPT !.phase = "busy", !.cmd = "identify", !.left = 1,
                        !.lba = 0, !.buf = <<>>]
    ELSE [d EXCEPT !.phase = "err", !.cmd = "none"]

\* outb(base + reg, value) as the drive takes it.
DrvOutb(hw, d, base, reg, value) ==
    IF ~ControllerAt(hw, base) THEN d
    ELSE CASE reg = ATA_REG_DRIVE -> [d EXCEPT !.drive = value]
           [] reg = ATA_REG_SECCOUNT -> [d EXCEPT !.seccount = value]
           [] reg = ATA_REG_LBA_LO -> [d EXCEPT !.lba_lo = value]
           [] reg = ATA_REG_LBA_MID -> [d EXCEPT !.lba_mid = value]
           [] reg = ATA_REG_LBA_HI -> [d EXCEPT !.lba_hi = value]
           [] reg = ATA_REG_COMMAND -> DrvCommand(hw, d, value)
           [] OTHER -> d

\* A sector has moved: the drive goes on to the next one or is done.
DrvNextSector(d) ==
    IF d.left > 1
    THEN [d EXCEPT !.phase = "busy", !.left = d.left - 1, !.lba = d.lba + 1, !.buf = <<>>]
    ELSE [d EXCEPT !.phase = "idle", !.cmd = "none", !.left = 0, !.buf = <<>>]

\* inw(base + ATA_REG_DATA): the next word of the sector the drive holds.
DrvWord(d) == IF d.phase = "drq" /\ Len(d.buf) > 0 THEN Head(d.buf) ELSE 65535
DrvInw(d) ==
    IF d.phase = "drq" /\ Len(d.buf) > 0
    THEN IF Len(d.buf) = 1 THEN DrvNextSector(d) ELSE [d EXCEPT !.buf = Tail(d.buf)]
    ELSE d

\* outw(base + ATA_REG_DATA, word): the drive collects the sector and goes
\* busy writing it once it is whole.
DrvOutw(d, word) ==
    IF d.phase = "drq" /\ d.cmd = "write"
    THEN IF Len(d.buf) + 1 = SectorWords
         THEN [d EXCEPT !.phase = "busy", !.buf = Append(d.buf, word)]
         ELSE [d EXCEPT !.buf = Append(d.buf, word)]
    ELSE d

\* ata_soft_reset as the drive takes it.
DrvReset(hw, d, base) == IF ControllerAt(hw, base) THEN DriveIdle ELSE d

\* The registers ata_read_sectors and ata_write_sectors program, in order.
AtaTaskFile(lba, count, cmd) ==
    << <<ATA_REG_DRIVE, OrBits(OrBits(ATA_DRIVE_MASTER, 64), (lba \div 16777216) % 16)>>,
       <<ATA_REG_SECCOUNT, count>>,
       <<ATA_REG_LBA_LO, lba % 256>>,
       <<ATA_REG_LBA_MID, (lba \div 256) % 256>>,
       <<ATA_REG_LBA_HI, (lba \div 65536) % 256>>,
       <<ATA_REG_COMMAND, cmd>> >>

\* The registers ata_identify programs, in order.
AtaIdentifyFile ==
    << <<ATA_REG_DRIVE, ATA_DRIVE_MASTER>>, <<ATA_REG_SECCOUNT, 0>>,
       <<ATA_REG_LBA_LO, 0>>, <<ATA_REG_LBA_MID, 0>>, <<ATA_REG_LBA_HI, 0>>,
       <<ATA_REG_COMMAND, ATA_CMD_IDENTIFY>> >>

\* The drive after a run of outb writes.
RECURSIVE DrvOutbAll(_, _, _, _)
DrvOutbAll(hw, d, base, writes) ==
    IF writes = <<>> THEN d
    ELSE DrvOutbAll(hw, DrvOutb(hw, d, base, Head(writes)[1], Head(writes)[2]),
                    base, Tail(writes))

\* if (count == 0) count = 1
ata_count_unchanged(count) == count
ata_count(count) == IF count = 0 THEN 1 ELSE count

NoAtaCall == [op |-> "none", lba |-> 0, count |-> 0, buf |-> <<>>]
NoAtaFrame == [count |-> 0, sector |-> 0, i |-> 0, timeout |-> 0, drq |-> FALSE]

\* The driver moves on inside a function.
AtaGo(pc, frame, out, log, io, failed, d) ==
    /\ ata_pc' = pc
    /\ ata_frame' = frame
    /\ ata_out' = out
    /\ ata_log' = log
    /\ ata_io' = io
    /\ ata_wait_failed' = failed
    /\ drv' = d
    /\ UNCHANGED <<ata_io_base, ata_ctrl_base, ata_drive_present, ata_call, ata_ret,
                   ata_prev, ata_calls, ata_hw, disk>>
    /\ UNCHANGED <<pmmVars, heapVars, kbdVars, vnVars, idtVars, netVars, unitVars>>

\* ata_read_sectors or ata_write_sectors returns.
AtaReturn(ret, out, log, io, failed, d) ==
    /\ ata_pc' = "idle"
    /\ ata_ret' = ret
    /\ ata_frame' = NoAtaFrame
    /\ ata_out' = out
    /\ ata_log' = log
    /\ ata_io' = io
    /\ ata_wait_failed' = failed
    /\ drv' = d
    /\ UNCHANGED <<ata_io_base, ata_ctrl_base, ata_drive_present, ata_call,
                   ata_prev, ata_calls, ata_hw, disk>>
    /\ UNCHANGED <<pmmVars, heapVars, kbdVars, vnVars, idtVars, netVars, unitVars>>

\* ata_init returns, with what ata_identify said.
AtaInitReturn(present, io, d) ==
    /\ ata_pc' = "idle"
    /\ ata_drive_present' = present
    /\ ata_frame' = NoAtaFrame
    /\ ata_io' = io
    /\ drv' = d
    /\ UNCHANGED <<ata_io_base, ata_ctrl_base, ata_call, ata_ret, ata_out, ata_log,
                   ata_wait_failed, ata_prev, ata_calls, ata_hw, disk>>
    /\ UNCHANGED <<pmmVars, heapVars, kbdVars, vnVars, idtVars, netVars, unitVars>>

\* The machine the kernel finds itself on.
Hw_ata_attach ==
    /\ ata_pc = "off"
    /\ \E hw \in AtaHardware : ata_hw' = hw
    /\ ata_pc' = "boot"
    /\ UNCHANGED <<ata_io_base, ata_ctrl_base, ata_drive_present, ata_call, ata_frame,
                   ata_ret, ata_out, ata_log, ata_io, ata_wait_failed, ata_prev,
                   ata_calls, drv, disk>>
    /\ UNCHANGED <<pmmVars, heapVars, kbdVars, vnVars, idtVars, netVars, unitVars>>

\* ata_init: ata_drive_present = 0, the primary channel selected
Call_ata_init ==
    /\ ata_pc = "boot"
    /\ ata_pc' = "init_p"
    /\ ata_drive_present' = 0
    /\ ata_io_base' = ATA_PRIMARY_IO
    /\ ata_ctrl_base' = ATA_PRIMARY_CTRL
    /\ ata_call' = [NoAtaCall EXCEPT !.op = "init"]
    /\ ata_io' = FALSE
    /\ UNCHANGED <<ata_frame, ata_ret, ata_out, ata_log, ata_wait_failed, ata_prev,
                   ata_calls, ata_hw, drv, disk>>
    /\ UNCHANGED <<pmmVars, heapVars, kbdVars, vnVars, idtVars, netVars, unitVars>>

\* ata_init: status = inb(ata_io_base + ATA_REG_STATUS) on the primary channel,
\* then on the secondary one
Ata_init_probe ==
    /\ ata_pc \in {"init_p", "init_s"}
    /\ LET status == DrvStatus(ata_hw, drv, ata_io_base)
       IN  IF status # 255
           THEN /\ ata_pc' = "init_reset"
                /\ ata_io' = TRUE
                /\ UNCHANGED <<ata_io_base, ata_ctrl_base, ata_drive_present>>
           ELSE IF ata_pc = "init_p"
           THEN /\ ata_pc' = "init_s"
                /\ ata_io' = TRUE
                /\ ata_io_base' = ATA_SECONDARY_IO
                /\ ata_ctrl_base' = ATA_SECONDARY_CTRL
                /\ UNCHANGED ata_drive_present
           ELSE /\ ata_pc' = "idle"
                /\ ata_io' = TRUE
                /\ UNCHANGED <<ata_io_base, ata_ctrl_base, ata_drive_present>>
    /\ UNCHANGED <<ata_call, ata_frame, ata_ret, ata_out, ata_log, ata_wait_failed,
                   ata_prev, ata_calls, ata_hw, drv, disk>>
    /\ UNCHANGED <<pmmVars, heapVars, kbdVars, vnVars, idtVars, netVars, unitVars>>

\* ata_soft_reset, then ata_identify up to the IDENTIFY command
Ata_init_identify ==
    /\ ata_pc = "init_reset"
    /\ AtaGo("id_status", ata_frame, ata_out, ata_log, TRUE, ata_wait_failed,
             DrvOutbAll(ata_hw, DrvReset(ata_hw, drv, ata_io_base), ata_io_base,
                        AtaIdentifyFile))

\* ata_identify: status = inb(...); if (status == 0) return 0
Ata_id_status ==
    /\ ata_pc = "id_status"
    /\ IF DrvStatus(ata_hw, drv, ata_io_base) = 0
       THEN AtaInitReturn(0, TRUE, drv)
       ELSE AtaGo("id_ready", [ata_frame EXCEPT !.timeout = AtaPolls], ata_out,
                  ata_log, TRUE, ata_wait_failed, drv)

\* One turn of ata_wait_ready's loop, and what its caller does with the result.
Ata_wait_ready ==
    /\ ata_pc \in {"r_ready", "w_ready", "w_final", "id_ready"}
    /\ IF ata_frame.timeout = 0
       THEN CASE ata_pc = "id_ready" -> AtaInitReturn(0, ata_io, drv)
              [] ata_pc = "w_final" -> AtaReturn(0, ata_out, ata_log, ata_io, TRUE, drv)
              [] OTHER -> AtaReturn(0 - 1, ata_out, ata_log, ata_io, TRUE, drv)
       ELSE LET status == DrvStatus(ata_hw, drv, ata_io_base)
                frame == [ata_frame EXCEPT !.timeout = ata_frame.timeout - 1]
            IN  IF AndBits(status, ATA_SR_BSY) = 0
                THEN CASE ata_pc = "r_ready" ->
                            AtaGo("r_cmd", frame, ata_out, ata_log, TRUE,
                                  ata_wait_failed, drv)
                       [] ata_pc = "w_ready" ->
                            AtaGo("w_cmd", frame, ata_out, ata_log, TRUE,
                                  ata_wait_failed, drv)
                       [] ata_pc = "id_ready" ->
                            AtaGo("id_lba", frame, ata_out, ata_log, TRUE,
                                  ata_wait_failed, drv)
                       [] OTHER -> AtaReturn(0, ata_out, ata_log, TRUE, ata_wait_failed, drv)
                ELSE AtaGo(ata_pc, frame, ata_out, ata_log, TRUE,
                           ata_wait_failed, drv)

\* ata_identify: inb of LBA mid and high, non-zero for a drive that is not ATA
Ata_id_lba ==
    /\ ata_pc = "id_lba"
    /\ IF drv.lba_mid # 0 \/ drv.lba_hi # 0
       THEN AtaInitReturn(0, TRUE, drv)
       ELSE AtaGo("id_drq", [ata_frame EXCEPT !.timeout = AtaPolls], ata_out, ata_log,
                  TRUE, ata_wait_failed, drv)

\* The drive select, the task file and the command of a read or a write.
Ata_command ==
    /\ ata_pc \in {"r_cmd", "w_cmd"}
    /\ LET writes == AtaTaskFile(ata_call.lba, ata_frame.count,
                                 IF ata_pc = "r_cmd" THEN ATA_CMD_READ_PIO
                                 ELSE ATA_CMD_WRITE_PIO)
           log == ata_log \o [k \in 1..Len(writes) |->
                                  <<"outb", writes[k][1], writes[k][2]>>]
           d == DrvOutbAll(ata_hw, drv, ata_io_base, writes)
           frame == [ata_frame EXCEPT !.sector = 0, !.i = 0, !.timeout = AtaPolls]
       IN  IF 0 < ata_frame.count
           THEN AtaGo(IF ata_pc = "r_cmd" THEN "r_drq" ELSE "w_drq", frame, ata_out,
                      log, TRUE, ata_wait_failed, d)
           ELSE IF ata_pc = "r_cmd"
           THEN AtaReturn(0, ata_out, log, TRUE, ata_wait_failed, d)
           ELSE AtaGo("w_final", frame, ata_out, log, TRUE, ata_wait_failed, d)

\* One turn of ata_wait_drq's loop (in ata_identify, of its own DRQ loop), and
\* what the caller does with the result.
Ata_wait_drq ==
    /\ ata_pc \in {"r_drq", "w_drq", "id_drq"}
    /\ IF ata_frame.timeout = 0
       THEN IF ata_pc = "id_drq"
            THEN AtaGo("id_check", [ata_frame EXCEPT !.timeout = 0 - 1], ata_out,
                       ata_log, ata_io, ata_wait_failed, drv)
            ELSE AtaReturn(0 - 1, ata_out, ata_log, ata_io, TRUE, drv)
       ELSE LET status == DrvStatus(ata_hw, drv, ata_io_base)
                frame == [ata_frame EXCEPT !.timeout = ata_frame.timeout - 1, !.i = 0]
            IN  IF AndBits(status, ATA_SR_ERR) # 0
                THEN IF ata_pc = "id_drq"
                     THEN AtaInitReturn(0, TRUE, drv)
                     ELSE AtaReturn(0 - 1, ata_out, ata_log, TRUE, TRUE, drv)
                ELSE IF AndBits(status, ATA_SR_DRQ) # 0
                THEN AtaGo(CASE ata_pc = "r_drq" -> "r_data"
                             [] ata_pc = "w_drq" -> "w_data"
                             [] OTHER -> "id_check",
                           [frame EXCEPT !.drq = (ata_pc = "id_drq")],
                           ata_out, ata_log, TRUE, ata_wait_failed, drv)
                ELSE AtaGo(ata_pc, frame, ata_out, ata_log, TRUE,
                           ata_wait_failed, drv)

\* ata_identify: if (timeout <= 0) return 0
Ata_id_check ==
    /\ ata_pc = "id_check"
    /\ IF ata_frame.timeout <= 0
       THEN AtaInitReturn(0, ata_io, drv)
       ELSE AtaGo("id_data", [ata_frame EXCEPT !.i = 0], ata_out, ata_log, ata_io,
                  ata_wait_failed, drv)

\* buf[sector * 256 + i] = inw(ata_io_base + ATA_REG_DATA), and in
\* ata_identify identify_data[i] = inw(...)
Ata_inw ==
    /\ ata_pc \in {"r_data", "id_data"}
    /\ LET word == DrvWord(drv)
           d == DrvInw(drv)
           i == ata_frame.i + 1
       IN  IF ata_pc = "id_data"
           THEN IF i = SectorWords
                THEN AtaInitReturn(1, TRUE, d)
                ELSE AtaGo("id_data", [ata_frame EXCEPT !.i = i], ata_out, ata_log,
                           TRUE, ata_wait_failed, d)
           ELSE LET out == [ata_out EXCEPT
                               ![(ata_frame.sector * SectorWords) + ata_frame.i + 1] = word]
                    log == Append(ata_log, <<"inw", ATA_REG_DATA, word>>)
                IN  IF i < SectorWords
                    THEN AtaGo("r_data", [ata_frame EXCEPT !.i = i], out, log,
                               TRUE, ata_wait_failed, d)
                    ELSE IF ata_frame.sector + 1 < ata_frame.count
                    THEN AtaGo("r_drq",
                               [ata_frame EXCEPT !.sector = ata_frame.sector + 1,
                                                 !.i = 0, !.timeout = AtaPolls],
                               out, log, TRUE, ata_wait_failed, d)
                    ELSE AtaReturn(0, out, log, TRUE, ata_wait_failed, d)

\* outw(ata_io_base + ATA_REG_DATA, buf[sector * 256 + i]), with the io_wait
\* after the sector's last word
Ata_outw ==
    /\ ata_pc = "w_data"
    /\ LET word == ata_call.buf[(ata_frame.sector * SectorWords) + ata_frame.i + 1]
           d == DrvOutw(drv, word)
           i == ata_frame.i + 1
           log == Append(ata_log, <<"outw", ATA_REG_DATA, word>>)
       IN  IF i < SectorWords
           THEN AtaGo("w_data", [ata_frame EXCEPT !.i = i], ata_out, log, TRUE,
                      ata_wait_failed, d)
           ELSE AtaGo(IF ata_frame.sector + 1 < ata_frame.count THEN "w_drq" ELSE "w_final",
                      [ata_frame EXCEPT !.sector = ata_frame.sector + 1, !.i = 0,
                                        !.timeout = AtaPolls],
                      ata_out, log, TRUE, ata_wait_failed, d)

\* ata_read_sectors(lba, count, buffer) and ata_write_sectors(lba, count,
\* buffer) up to the wait for the drive: the presence test and the count.
AtaCall(op, lba, count, buf) ==
    /\ ata_pc = "idle"
    /\ ata_calls < MaxAtaCalls
    /\ ata_calls' = ata_calls + 1
    /\ ata_prev' = [call |-> ata_call, ret |-> ata_ret]
    /\ ata_call' = [op |-> op, lba |-> lba, count |-> count, buf |-> buf]
    /\ ata_out' = FreshBuffer
    /\ ata_log' = <<>>
    /\ ata_io' = FALSE
    /\ ata_wait_failed' = FALSE
    /\ IF ata_drive_present = 0
       THEN /\ ata_pc' = "idle"
            /\ ata_ret' = 0 - 1
            /\ ata_frame' = NoAtaFrame
       ELSE /\ ata_pc' = IF op = "read" THEN "r_ready" ELSE "w_ready"
            /\ ata_ret' = ata_ret
            /\ ata_frame' = [count |-> ata_count(count), sector |-> 0, i |-> 0,
                             timeout |-> AtaPolls, drq |-> FALSE]
    /\ UNCHANGED <<ata_io_base, ata_ctrl_base, ata_drive_present, ata_hw, drv, disk>>
    /\ UNCHANGED <<pmmVars, heapVars, kbdVars, vnVars, idtVars, netVars, unitVars>>

Call_ata_read_sectors ==
    \E lba \in AtaLbas, count \in 0..MaxAtaCount : AtaCall("read", lba, count, <<>>)

Call_ata_write_sectors ==
    \E lba \in AtaLbas, count \in 0..MaxAtaCount, buf \in AtaBuffers :
        AtaCall("write", lba, count, buf)

\* The drive leaves BSY: with the sector to read, ready for the sector to
\* write, having written the sector it was given, or with an error.  After
\* IDENTIFY it may drop BSY before it raises DRQ or ERR, which is what the
\* second poll loop of ata_identify waits for.
Drive_progress ==
    /\ drv.phase \in {"busy", "settle"}
    /\ \/ /\ drv.cmd = "read" /\ drv.phase = "busy"
          /\ drv' = [drv EXCEPT !.phase = "drq", !.buf = SectorOf(disk, drv.lba)]
          /\ disk' = disk
       \/ /\ drv.cmd = "identify"
          /\ drv' = [drv EXCEPT !.phase = "drq", !.buf = ZeroSector]
          /\ disk' = disk
       \/ /\ drv.cmd = "identify" /\ drv.phase = "busy"
          /\ drv' = [drv EXCEPT !.phase = "settle"]
          /\ disk' = disk
       \/ /\ drv.cmd = "write" /\ Len(drv.buf) < SectorWords /\ drv.phase = "busy"
          /\ drv' = [drv EXCEPT !.phase = "drq"]
          /\ disk' = disk
       \/ /\ drv.cmd = "write" /\ Len(drv.buf) = SectorWords /\ drv.phase = "busy"
          /\ disk' = DiskPut(disk, drv.lba, drv.buf)
          /\ drv' = IF drv.left > 1
                    THEN [drv EXCEPT !.phase = "drq", !.left = drv.left - 1,
                                     !.lba = drv.lba + 1, !.buf = <<>>]
                    ELSE [drv EXCEPT !.phase = "idle", !.cmd = "none", !.left = 0,
                                     !.buf = <<>>]
       \/ /\ drv' = [drv EXCEPT !.phase = "err", !.cmd = "none", !.buf = <<>>]
          /\ disk' = disk
    /\ UNCHANGED <<ata_io_base, ata_ctrl_base, ata_drive_present, ata_pc, ata_call,
                   ata_frame, ata_ret, ata_out, ata_log, ata_io, ata_wait_failed,
                   ata_prev, ata_calls, ata_hw>>
    /\ UNCHANGED <<pmmVars, heapVars, kbdVars, vnVars, idtVars, netVars, unitVars>>

\* Power-on: the statics of ata.c as their initialisers leave them.
InitAta ==
    /\ ata_io_base = ATA_PRIMARY_IO
    /\ ata_ctrl_base = ATA_PRIMARY_CTRL
    /\ ata_drive_present = 0
    /\ ata_pc = "off"
    /\ ata_call = NoAtaCall
    /\ ata_frame = NoAtaFrame
    /\ ata_ret = 0
    /\ ata_out = FreshBuffer
    /\ ata_log = <<>>
    /\ ata_io = FALSE
    /\ ata_wait_failed = FALSE
    /\ ata_prev = [call |-> NoAtaCall, ret |-> 0]
    /\ ata_calls = 0
    /\ ata_hw = [bus |-> "none", dev |-> "none"]
    /\ drv = DriveIdle
    /\ disk = [l \in {} |-> ZeroSector]

NextAta ==
    \/ Hw_ata_attach
    \/ Call_ata_init
    \/ Ata_init_probe
    \/ Ata_init_identify
    \/ Ata_id_status
    \/ Ata_wait_ready
    \/ Ata_id_lba
    \/ Ata_command
    \/ Ata_wait_drq
    \/ Ata_id_check
    \/ Ata_inw
    \/ Ata_outw
    \/ Call_ata_read_sectors
    \/ Call_ata_write_sectors
    \/ Drive_progress

(***************************************************************************)
(* Network bring-up: net_init and virtio_net_init step by step, and the    *)
(* entry points of net.c                                                   *)
(*                                                                         *)
(* net_init runs once, from kernel_main, after ata_init and on a heap that *)
(* has served no other large request, so virtq_init's allocations succeed. *)
(***************************************************************************)
VIRTIO_PCI_HOST_FEATURES == 0
VIRTIO_PCI_GUEST_FEATURES == 4
VIRTIO_PCI_QUEUE_PFN == 8
VIRTIO_PCI_QUEUE_SIZE == 12
VIRTIO_PCI_QUEUE_SEL == 14
VIRTIO_PCI_QUEUE_NOTIFY == 16
VIRTIO_PCI_STATUS == 18
VIRTIO_PCI_CONFIG == 20
VIRTIO_STATUS_ACKNOWLEDGE == 1
VIRTIO_STATUS_DRIVER == 2
VIRTIO_STATUS_DRIVER_OK == 4
\* Calls of the entry points of net.c in one run.
MaxNetCalls == 2

\* rx_queue and tx_queue before virtq_init: statics, all zero
NoQueue ==
    [desc |-> [i \in {} |-> Desc(0, 0, 0, 0)],
     avail |-> [idx |-> 0, ring |-> [i \in {} |-> 0]],
     used |-> [idx |-> 0, ring |-> [i \in {} |-> [id |-> 0, len |-> 0]]],
     size |-> 0,
     last_used_idx |-> 0,
     buffers |-> [i \in {} |-> 0]]

\* vq->desc of queue q: the kcalloc'ed block, rounded up to a page boundary
RingAddr(q) == 3145728 + q * 65536

\* virtq_setup: the size the device reports, 16 when that is 0 or above 256
virtq_size(reported) == IF reported = 0 \/ reported > 256 THEN 16 ELSE reported

\* the buffers virtq_init allocates for queue q
QueueBuffers(q) == [i \in Slots |-> IF q = 0 THEN RxBuffer(i) ELSE TxBuffer(i)]

\* the device register accesses of virtio_net_init, statement by statement
RegsStatus(value) == <<<<"outb", VIRTIO_PCI_STATUS, value>>>>
RegsFeatures == <<<<"inl", VIRTIO_PCI_HOST_FEATURES, 0>>,
                  <<"outl", VIRTIO_PCI_GUEST_FEATURES, 0>>>>
RegsSetup(q) == <<<<"outw", VIRTIO_PCI_QUEUE_SEL, q>>,
                  <<"inw", VIRTIO_PCI_QUEUE_SIZE, VqSize>>,
                  <<"outl", VIRTIO_PCI_QUEUE_PFN, RingAddr(q) \div 4096>>>>
RegsNotify == <<<<"outw", VIRTIO_PCI_QUEUE_NOTIFY, 0>>>>
RegsMac == [i \in 1..6 |-> <<"inb", VIRTIO_PCI_CONFIG + (i - 1), 0>>]

\* the step of virtio_net_init that writes DRIVER_OK right after the queues
\* are set up, before the RX buffers are added
ViAfter_ok_early(pc) ==
    CASE pc = "vi_reset" -> "vi_ack"
      [] pc = "vi_ack" -> "vi_driver"
      [] pc = "vi_driver" -> "vi_features"
      [] pc = "vi_features" -> "vi_q"
      [] pc = "vi_q" -> "vi_ok"
      [] pc = "vi_ok" -> "vi_add"
      [] pc = "vi_add" -> "vi_mac"
      [] pc = "vi_mac" -> "vi_done"
      [] pc = "vi_done" -> "ni_done"
      [] OTHER -> "idle"

\* the order of the statements of virtio_net_init and, after its return 0,
\* of net_init
ViAfter(pc) ==
    CASE pc = "vi_reset" -> "vi_ack"
      [] pc = "vi_ack" -> "vi_driver"
      [] pc = "vi_driver" -> "vi_features"
      [] pc = "vi_features" -> "vi_q"
      [] pc = "vi_q" -> "vi_add"
      [] pc = "vi_add" -> "vi_mac"
      [] pc = "vi_mac" -> "vi_ok"
      [] pc = "vi_ok" -> "vi_done"
      [] pc = "vi_done" -> "ni_done"
      [] OTHER -> "idle"

\* the value each status write of virtio_net_init puts in the status register
StatusAt(pc) ==
    CASE pc = "vi_reset" -> 0
      [] pc = "vi_ack" -> VIRTIO_STATUS_ACKNOWLEDGE
      [] pc = "vi_driver" -> VIRTIO_STATUS_ACKNOWLEDGE + VIRTIO_STATUS_DRIVER
      [] OTHER -> VIRTIO_STATUS_ACKNOWLEDGE + VIRTIO_STATUS_DRIVER + VIRTIO_STATUS_DRIVER_OK

NoNetCall == [op |-> "none", i |-> 0]

\* one step of net_init / virtio_net_init
ViStep(pc, call, regs, rxq, txq, bufs, notify, vinit, ninit) ==
    /\ net_pc' = pc
    /\ net_call' = call
    /\ vn_regs' = vn_regs \o regs
    /\ rx_queue' = rxq
    /\ tx_queue' = txq
    /\ vn_buffers' = bufs
    /\ vn_notify' = notify
    /\ virtio_initialized' = vinit
    /\ net_inited' = ninit
    /\ UNCHANGED <<net_ret, net_calls, pci_has_nic, vq_failed>>
    /\ UNCHANGED <<tx_idx, vn_pc, vn_call, vn_ret, vn_out, vn_calls, dev_tx_next,
                   dev_rx_next, dev_tx_got, vn_sent>>
    /\ UNCHANGED <<pmmVars, heapVars, kbdVars, idtVars, ataVars, unitVars>>

\* a step that only accesses device registers
ViRegs(pc, call, regs) ==
    ViStep(pc, call, regs, rx_queue, tx_queue, vn_buffers, vn_notify,
           virtio_initialized, net_inited)

\* pci_init has filled the device registry: with the virtio NIC or without
Hw_nic_attach ==
    /\ net_pc = "off"
    /\ net_pc' = "boot"
    /\ pci_has_nic' \in BOOLEAN
    /\ UNCHANGED <<net_inited, net_call, net_ret, net_calls, vn_regs, vq_failed>>
    /\ UNCHANGED <<pmmVars, heapVars, kbdVars, vnVars, idtVars, ataVars, unitVars>>

\* net_init -> virtio_net_init: pci_find_device; return -1 when there is no
\* NIC, and net_init returns with net_inited left 0
Call_net_init ==
    /\ net_pc = "boot"
    /\ ViRegs(IF pci_has_nic THEN "vi_reset" ELSE "idle", [op |-> "init", i |-> 0], <<>>)

\* outb(io_base + VIRTIO_PCI_STATUS, ...): reset, ACKNOWLEDGE, ACKNOWLEDGE | DRIVER
Vi_status ==
    /\ net_pc \in {"vi_reset", "vi_ack", "vi_driver"}
    /\ ViRegs(ViAfter(net_pc), net_call, RegsStatus(StatusAt(net_pc)))

\* inl(HOST_FEATURES); outl(GUEST_FEATURES, 0)
Vi_features ==
    /\ net_pc = "vi_features"
    /\ ViRegs(ViAfter(net_pc), [net_call EXCEPT !.i = 0], RegsFeatures)

\* virtq_setup(0, &rx_queue); virtq_setup(1, &tx_queue)
Vi_setup ==
    /\ net_pc = "vi_q"
    /\ LET q == net_call.i
           vq == virtq_init(virtq_size(VqSize), QueueBuffers(q))
           new == {QueueBuffers(q)[i] : i \in Slots}
           bufs == [a \in DOMAIN vn_buffers \cup new |->
                       IF a \in DOMAIN vn_buffers THEN vn_buffers[a]
                       ELSE Content("junk", 0, 0)]
       IN  ViStep(IF q = 0 THEN "vi_q" ELSE ViAfter(net_pc),
                  [net_call EXCEPT !.i = IF q = 0 THEN 1 ELSE 0],
                  RegsSetup(q),
                  IF q = 0 THEN vq ELSE rx_queue,
                  IF q = 0 THEN tx_queue ELSE vq,
                  bufs, vn_notify, virtio_initialized, net_inited)

\* What a read through the NULL buffer table finds in low memory.
LowMemoryWords == {0, 61440}

\* virtq_init returning -1: at the ring memory (k = -2, the queue is left as
\* it was), at the buffer table (k = -1, vq->buffers is NULL and reads of it
\* find low memory) or at buffer k (the table's entries from k on are NULL).
virtq_init_short(vq, size, buffers, k, low) ==
    IF k = 0 - 2 THEN vq
    ELSE [virtq_init(size, buffers) EXCEPT
             !.buffers = [i \in Slots |-> IF k = 0 - 1 THEN low
                                          ELSE IF i < k THEN buffers[i] ELSE NULL]]

\* virtq_setup when an allocation of virtq_init fails: the queue is selected
\* and its size read, virtq_init returns -1 and virtq_setup returns without
\* the QUEUE_PFN write; virtio_net_init goes on.
Vi_setup_short ==
    /\ net_pc = "vi_q"
    /\ \E k \in (0 - 2)..(VqSize - 1), low \in LowMemoryWords :
          LET q == net_call.i
              vq == virtq_init_short(IF q = 0 THEN rx_queue ELSE tx_queue,
                                     virtq_size(VqSize), QueueBuffers(q), k, low)
              new == {QueueBuffers(q)[i] : i \in {j \in Slots : j < k}}
          IN  /\ (k # 0 - 1) => low = 0
              /\ net_pc' = IF q = 0 THEN "vi_q" ELSE ViAfter(net_pc)
              /\ net_call' = [net_call EXCEPT !.i = IF q = 0 THEN 1 ELSE 0]
              /\ vn_regs' = vn_regs \o <<<<"outw", VIRTIO_PCI_QUEUE_SEL, q>>,
                                          <<"inw", VIRTIO_PCI_QUEUE_SIZE, VqSize>>>>
              /\ rx_queue' = IF q = 0 THEN vq ELSE rx_queue
              /\ tx_queue' = IF q = 0 THEN tx_queue ELSE vq
              /\ vn_buffers' = [a \in DOMAIN vn_buffers \cup new |->
                                   IF a \in DOMAIN vn_buffers THEN vn_buffers[a]
                                   ELSE Content("junk", 0, 0)]
    /\ vq_failed' = TRUE
    /\ UNCHANGED <<net_ret, net_calls, pci_has_nic, net_inited, virtio_initialized,
                   vn_notify>>
    /\ UNCHANGED <<tx_idx, vn_pc, vn_call, vn_ret, vn_out, vn_calls, dev_tx_next,
                   dev_rx_next, dev_tx_got, vn_sent>>
    /\ UNCHANGED <<pmmVars, heapVars, kbdVars, idtVars, ataVars, unitVars>>

\* for (i = 0; i < rx_queue.size; i++) virtq_add_rx_buffer(&rx_queue, i)
Vi_add_rx ==
    /\ net_pc = "vi_add"
    /\ net_call.i < rx_queue.size
    /\ ViStep("vi_add", [net_call EXCEPT !.i = @ + 1], <<>>,
              virtq_add_rx_buffer(rx_queue, net_call.i), tx_queue, vn_buffers,
              vn_notify, virtio_initialized, net_inited)

\* the loop is over: outw(io_base + VIRTIO_PCI_QUEUE_NOTIFY, 0)
Vi_notify ==
    /\ net_pc = "vi_add"
    /\ net_call.i >= rx_queue.size
    /\ ViStep(ViAfter(net_pc), net_call, RegsNotify, rx_queue, tx_queue, vn_buffers,
              [vn_notify EXCEPT ![0] = @ + 1], virtio_initialized, net_inited)

\* mac_addr[i] = inb(io_base + VIRTIO_PCI_CONFIG + i), i = 0..5
Vi_mac ==
    /\ net_pc = "vi_mac"
    /\ ViRegs(ViAfter(net_pc), net_call, RegsMac)

\* outb(io_base + VIRTIO_PCI_STATUS, ACKNOWLEDGE | DRIVER | DRIVER_OK)
Vi_driver_ok ==
    /\ net_pc = "vi_ok"
    /\ ViRegs(ViAfter(net_pc), net_call, RegsStatus(StatusAt(net_pc)))

\* virtio_initialized = 1; return 0
Vi_done ==
    /\ net_pc = "vi_done"
    /\ ViStep(ViAfter(net_pc), net_call, <<>>, rx_queue, tx_queue, vn_buffers, vn_notify,
              1, net_inited)

\* back in net_init: eth_init(); arp_init(); net_inited = 1
Net_init_done ==
    /\ net_pc = "ni_done"
    /\ ViStep("idle", net_call, <<>>, rx_queue, tx_queue, vn_buffers, vn_notify,
              virtio_initialized, 1)

\* the test of net_is_initialized turned round
net_is_initialized_inverted == IF net_inited # 0 /\ virtio_initialized # 0 THEN 0 ELSE 1
\* net_inited && virtio_net_is_initialized()
net_is_initialized == IF net_inited # 0 /\ virtio_initialized # 0 THEN 1 ELSE 0

\* an entry point of net.c that returns at once
NetReturn(op, ret) ==
    /\ net_pc = "idle"
    /\ net_calls < MaxNetCalls
    /\ net_calls' = net_calls + 1
    /\ net_call' = [op |-> op, i |-> 0]
    /\ net_ret' = ret
    /\ UNCHANGED <<net_inited, net_pc, pci_has_nic, vn_regs, vq_failed>>
    /\ UNCHANGED <<pmmVars, heapVars, kbdVars, vnVars, idtVars, ataVars, unitVars>>

Call_net_is_initialized == NetReturn("is_initialized", net_is_initialized)

\* if (!net_inited) return -1; return virtio_net_send(data, len)
Call_net_send_packet ==
    IF net_inited = 0
    THEN NetReturn("send", 0 - 1)
    ELSE net_pc = "idle" /\ Call_virtio_net_send

\* if (!net_inited) return -1; return virtio_net_receive(buffer, max_len)
Call_net_receive_packet ==
    IF net_inited = 0
    THEN NetReturn("receive", 0 - 1)
    ELSE net_pc = "idle" /\ Call_virtio_net_receive

\* net_poll with the network down: if (!net_inited) return.  (With the
\* network up it goes on into the Ethernet, ARP and IP layers.)
Call_net_poll ==
    /\ net_inited = 0
    /\ NetReturn("poll", net_ret)

\* net_ping with the network down: if (!net_inited) return -1.  (With the
\* network up it goes on into icmp_ping.)
Call_net_ping ==
    /\ net_inited = 0
    /\ NetReturn("ping", 0 - 1)

\* Power-on: the statics of net.c and virtio_net.c as their initialisers
\* leave them, no device register accessed.
InitNetOff ==
    /\ net_inited = 0
    /\ net_pc = "off"
    /\ net_call = NoNetCall
    /\ net_ret = 0
    /\ net_calls = 0
    /\ pci_has_nic = FALSE
    /\ vn_regs = <<>>
    /\ vq_failed = FALSE

InitVirtioOff ==
    /\ virtio_initialized = 0
    /\ rx_queue = NoQueue
    /\ tx_queue = NoQueue
    /\ tx_idx = 0
    /\ vn_buffers = [a \in {} |-> Content("junk", 0, 0)]
    /\ vn_notify = [q \in {0, 1} |-> 0]
    /\ vn_pc = "idle"
    /\ vn_call = NoCall
    /\ vn_ret = 0
    /\ vn_out = [data |-> 0, n |-> 0]
    /\ vn_calls = 0
    /\ dev_tx_next = 0
    /\ dev_rx_next = 0
    /\ dev_tx_got = <<>>
    /\ vn_sent = <<>>

\* net_init has returned on a machine with the NIC: the state InitVirtio
\* describes, with the register accesses that led to it.
InitNet ==
    /\ net_inited = 1
    /\ net_pc = "idle"
    /\ net_call = [op |-> "init", i |-> VqSize]
    /\ net_ret = 0
    /\ net_calls = 0
    /\ pci_has_nic = TRUE
    /\ vn_regs = RegsStatus(StatusAt("vi_reset")) \o RegsStatus(StatusAt("vi_ack"))
                 \o RegsStatus(StatusAt("vi_driver")) \o RegsFeatures \o RegsSetup(0)
                 \o RegsSetup(1) \o RegsNotify \o RegsMac \o RegsStatus(StatusAt("vi_ok"))
    /\ vq_failed = FALSE

NetBoot ==
    \/ Hw_nic_attach
    \/ Call_net_init
    \/ Vi_status
    \/ Vi_features
    \/ Vi_setup
    \/ Vi_add_rx
    \/ Vi_notify
    \/ Vi_mac
    \/ Vi_driver_ok
    \/ Vi_done
    \/ Net_init_done

NetEntry ==
    \/ Call_net_is_initialized
    \/ Call_net_send_packet
    \/ Call_net_receive_packet
    \/ Call_net_poll
    \/ Call_net_ping

\* The network of a machine from power-on: bring-up, the entry points of
\* net.c, and the driver's data path once the CPU is out of net_init.
NextNet ==
    \/ NetBoot
    \/ NetEntry
    \/ (net_pc = "idle" /\ NextVirtio)

\* net_init on a heap that may run out in virtq_init, and the query of its
\* result.
NextNetAlloc ==
    \/ NetBoot
    \/ Vi_setup_short
    \/ Call_net_is_initialized

\* Disk and network of a machine from power-on, in kernel_main's order:
\* ata_init, then net_init, then disk calls, and the network calls of a
\* machine whose network stayed down.  The CPU is in one call at a time.
NextDevices ==
    \/ (NextAta /\ (net_pc = "idle" \/ (net_pc \in {"off", "boot"} /\ ata_calls' = 0)))
    \/ (ata_pc = "idle" /\ ata_calls = 0 /\ NetBoot)
    \/ (ata_pc = "idle" /\ net_inited = 0 /\ NetEntry)


\* The units modelled on their own, before anything has run.
InitUnits == InitKeys /\ InitReadline /\ InitBootPath /\ InitPci

Init ==
    InitPmm /\ InitHeap /\ InitKbd /\ InitVirtio /\ InitIdt /\ InitAta /\ InitNet /\ InitUnits

SpecPmm == Init /\ [][NextPmm]_vars

\* The heap under callers that ask for ordinary sizes.
SpecHeap == Init /\ [][NextHeap]_vars

\* The heap under callers that may ask for any size_t value.
SpecHeapAnySize == Init /\ [][NextHeapAnySize]_vars

\* The keyboard: interrupts against the main flow.
SpecKbd == Init /\ [][NextKbd]_vars

\* The virtio-net driver against its device.
SpecVirtio == Init /\ [][NextVirtio]_vars

\* The driver's send and receive against the loopback device.
NextLoop ==
    \/ Call_virtio_net_send
    \/ Send_hdr
    \/ Send_copy
    \/ Send_desc_addr
    \/ Send_desc_len
    \/ Send_desc_flags
    \/ Send_desc_next
    \/ Send_ring
    \/ Send_idx
    \/ Send_notify
    \/ Send_done
    \/ Call_virtio_net_receive
    \/ Recv_elem
    \/ Recv_adv
    \/ Recv_copy
    \/ Recv_desc_addr
    \/ Recv_desc_len
    \/ Recv_desc_flags
    \/ Recv_desc_next
    \/ Recv_ring
    \/ Recv_idx
    \/ Recv_notify
    \/ Dev_echo

SpecLoop == Init /\ [][NextLoop]_vars

\* The network driver from a fresh bring-up and from close to the wrap of the
\* RX indices.
InitWrap ==
    InitPmm /\ InitHeap /\ InitKbd /\ InitVirtioWrap /\ InitIdt /\ InitAta /\ InitNet /\ InitUnits
SpecVirtioWrap == InitWrap /\ [][NextVirtio]_vars

\* Interrupt bring-up and dispatch.
SpecIdt == Init /\ [][NextIdt]_vars

\* The disk driver against the drive.
SpecAta == Init /\ [][NextAta]_vars

\* The keyboard handler under the fuller keyboard.
SpecKeys == Init /\ [][NextKeys]_vars

\* The line readers.
SpecReadline == Init /\ [][NextReadline]_vars

\* The boot path.
SpecBootPath == Init /\ [][NextBootPath]_vars

\* PCI enumeration.
SpecPci == Init /\ [][NextPci]_vars

\* The machine at power-on, with memory and interrupts set up.
InitBoot ==
    /\ InitPmm /\ InitHeap /\ InitKbd /\ InitVirtioOff /\ InitIdt /\ InitAta /\ InitNetOff
    /\ InitUnits

\* The network from power-on.
SpecNet == InitBoot /\ [][NextNet]_vars

\* Disk and network from power-on.
SpecDevices == InitBoot /\ [][NextDevices]_vars

\* Network bring-up with allocation failures.
SpecNetAlloc == InitBoot /\ [][NextNetAlloc]_vars

(***************************************************************************)
(* The kernel's memory layout: kernel_main runs pmm_init on the window of  *)
(* pmm.c and heap_init on the region of kernel.c; frames and heap blocks   *)
(* are then handed out side by side.                                       *)
(***************************************************************************)
\* PMM_MEMORY_SIZE / PMM_PAGE_SIZE of pmm.c: 14 MiB of 4 KiB frames.
KernelFrames == 3584
\* Frames the layout run allocates.
MaxLayoutFrames == 514
\* Heap calls of the layout run.
MaxLayoutHeapCalls == 1

InitLayout ==
    /\ pmm_total_pages = KernelFrames
    /\ pmm_bitmap = pmm_init.bitmap
    /\ pmm_free_count = pmm_init.free_count
    /\ pmm_call = [op |-> "init", addr |-> NULL, count |-> 0]
    /\ pmm_ret = NULL
    /\ pmm_owned = {}
    /\ InitHeap /\ InitKbd /\ InitVirtio /\ InitIdt /\ InitAta /\ InitNet /\ InitUnits

Layout_pmm_alloc_page ==
    /\ PMM_TOTAL_PAGES - pmm_free_count < MaxLayoutFrames
    /\ Call_pmm_alloc_page

Layout_kmalloc ==
    /\ heap_calls < MaxLayoutHeapCalls
    /\ Call_kmalloc

NextLayout ==
    \/ Layout_pmm_alloc_page
    \/ Layout_kmalloc

SpecLayout == InitLayout /\ [][NextLayout]_vars

\* The keyboard with the timer: the CPU keeps executing keyboard_getchar
\* while it is not halted, and timer interrupts keep being delivered.
SpecKbdLive ==
    /\ Init
    /\ [][NextKbdLive]_vars
    /\ WF_vars(GetcharRuns)
    /\ WF_vars(Irq0)

(***************************************************************************)
(* Claims about the physical frame allocator                               *)
(***************************************************************************)

\* C1: in every state reachable from pmm_init by alloc_page, alloc_pages,
\* free_page and free_pages calls with arbitrary arguments, pmm_free_count
\* equals the number of cleared bits of the bitmap.
C1_FreeCountIsClearBits == pmm_get_free_pages = Cardinality(ClearBits(pmm_bitmap))

\* A free_pages call over a range that is partly free and partly outside the
\* window has run, and some frames are still in use.
C1_Witness ==
    /\ pmm_call.op = "free_pages"
    /\ pmm_call.count >= 2
    /\ pmm_call.addr + (pmm_call.count * PMM_PAGE_SIZE) > PMM_START_ADDR + PMM_MEMORY_SIZE
    /\ pmm_free_count > 0
    /\ pmm_free_count < PMM_TOTAL_PAGES

\* C2: every non-null address returned by pmm_alloc_page or pmm_alloc_pages(n)
\* is 4 KiB-aligned, the n frames it covers lie entirely inside
\* [BASE, BASE+SIZE), all of them were free immediately before the call, and
\* none of them was handed out earlier without having been freed since.
C2_AllocReturnsFreeFrames ==
    [][(pmm_call'.op \in {"alloc_page", "alloc_pages"} /\ pmm_ret' # NULL) =>
          /\ pmm_ret' % PMM_PAGE_SIZE = 0
          /\ pmm_ret' >= PMM_START_ADDR
          /\ pmm_ret' + (pmm_call'.count * PMM_PAGE_SIZE) <= PMM_START_ADDR + PMM_MEMORY_SIZE
          /\ \A p \in FramesOf(pmm_ret', pmm_call'.count) :
                /\ ~pmm_test_bit(pmm_bitmap, p)
                /\ p \notin pmm_owned
                /\ pmm_test_bit(pmm_bitmap', p)]_vars

\* pmm_alloc_pages(2) has returned a run that starts after a used frame and a
\* free run of length one that it had to skip.
C2_Witness ==
    /\ pmm_call.op = "alloc_pages"
    /\ pmm_call.count = 2
    /\ pmm_ret = PMM_START_ADDR + (3 * PMM_PAGE_SIZE)
    /\ pmm_owned = {0, 2, 3, 4}

(***************************************************************************)
(* Claims about the kernel heap                                            *)
(***************************************************************************)

\* C3: once every pointer kmalloc returned has been freed, in whatever order
\* and however the calls were interleaved, the heap is a single free block
\* whose payload size is the heap size minus one header.
C3_AllFreedIsOneBlock ==
    (~heap_lost /\ heap_calls > 0 /\ heap_live = {}) =>
        /\ blk_size(HeapNow, heap_start) = heap_size - HEADER_SIZE
        /\ blk_free(HeapNow, heap_start)
        /\ blk_next(HeapNow, heap_start) = NULL

\* C4: when kmalloc picks a free block of capacity c for a request rounded up
\* to s with c - s < header + 16, the block is left un-split: nothing but its
\* free flag is written, so its size, its next pointer and every other header
\* stay as they were.
C4_NoSplitBelowThreshold ==
    [][(heap_call'.op = "kmalloc" /\ ~heap_lost' /\ heap_ret' # NULL) =>
          LET s == align_size(heap_call'.arg)
              blk == heap_ret' - HEADER_SIZE
              c == blk_size(HeapNow, blk)
          IN  (c - s < HEADER_SIZE + MIN_BLOCK_SIZE) =>
                 \A w \in 0..(MemWords - 1) :
                    w # WordAt(blk + OFF_FREE) => heap_mem'[w] = heap_mem[w]]_vars

\* C5: at every operation boundary no free block of the list is immediately
\* followed by another free block.
C5_NoAdjacentFreeBlocks ==
    ~heap_lost =>
        \A i \in 1..Len(BlockList(HeapNow)) :
            LET b == BlockList(HeapNow)[i]
                n == blk_next(HeapNow, b)
            IN  ~(blk_free(HeapNow, b) /\ n # NULL /\ IsBlock(n) /\ blk_free(HeapNow, n))

\* C6: after p = kmalloc(s); kfree(p); kfree(p) the block list and the used
\* counter are what they were before the kmalloc, the second kfree has
\* changed nothing, and kfree(NULL) changes nothing.
C6_DoubleFreeRestoresHeap ==
    [][/\ (heap_phase' = 3 /\ ~heap_lost') =>
             /\ Snapshot(HeapNow)' = heap_pre'
             /\ UNCHANGED <<heap_mem, heap_used>>
       /\ (heap_call'.op = "kfree" /\ heap_call'.arg = NULL) =>
             UNCHANGED <<heap_mem, heap_used>>]_vars

\* Sum of header + payload over the blocks of a list view that are not free.
RECURSIVE UsedBytes(_)
UsedBytes(view) ==
    IF view = <<>> THEN 0
    ELSE (IF Head(view).free THEN 0 ELSE HEADER_SIZE + Head(view).size)
             + UsedBytes(Tail(view))

\* C7: at every operation boundary after heap_init, also right after it, the
\* used counter heap_stats reports is the sum of header + payload over the
\* blocks that are not free.
C7_UsedIsSumOfUsedBlocks ==
    ~heap_lost => heap_stats(HeapNow).used = UsedBytes(BlockView(HeapNow))

\* C8: with the 16-byte-aligned heap base, every non-null pointer kmalloc or
\* kcalloc returns is a multiple of 16.
C8_PayloadAligned16 ==
    (~heap_lost /\ heap_call.op \in {"kmalloc", "kcalloc"} /\ heap_ret # NULL) =>
        heap_ret % 16 = 0

\* C9: kmalloc(size) returns NULL and leaves memory and the used counter as
\* they were whenever size is 0 or no free block of the list has a payload
\* capacity of at least size, and a block it returns has a payload capacity
\* of at least size.
C9_NullWhenNothingFits ==
    [][(heap_call'.op = "kmalloc" /\ ~heap_lost') =>
          LET size == heap_call'.arg
              fits == \E i \in 1..Len(BlockView(HeapNow)) :
                          /\ BlockView(HeapNow)[i].free
                          /\ UGe(BlockView(HeapNow)[i].size, size)
          IN  /\ (size = 0 \/ ~fits) =>
                    /\ heap_ret' = NULL
                    /\ UNCHANGED <<heap_mem, heap_used>>
              /\ heap_ret' # NULL =>
                    UGe(blk_size(HeapNow', heap_ret' - HEADER_SIZE), size)]_vars

(***************************************************************************)
(* Claims about the keyboard ring                                          *)
(***************************************************************************)

\* The unread cells of the ring, oldest first: tail, tail + 1, ... up to head.
RECURSIVE RingFrom(_, _, _)
RingFrom(buf, i, head) ==
    IF i = head THEN <<>>
    ELSE <<buf[i]>> \o RingFrom(buf, (i + 1) % KBD_BUFFER_SIZE, head)

Unread == RingFrom(kbd_buffer, kbd_buffer_tail, kbd_buffer_head)

\* 1 while keyboard_getchar has advanced the tail past a byte it has yet to
\* load and return.
Taken == IF kbd_pc = "load" THEN 1 ELSE 0

\* C10: with IRQ1 free to run between any two steps of keyboard_haschar and
\* keyboard_getchar, the bytes keyboard_getchar has returned are the first
\* bytes kbd_buffer_put accepted, in order and once each; the bytes accepted
\* and not yet taken are the unread cells of the ring in order, and the cell
\* keyboard_getchar is about to load still holds the next byte (so no unread
\* cell was overwritten); the byte it has loaded and not yet returned is the
\* next one; and the handler dropped a byte only with the ring full.
C10_RingIsFifo ==
    /\ Len(kbd_returned) + Taken <= Len(kbd_accepted)
    /\ kbd_returned = SubSeq(kbd_accepted, 1, Len(kbd_returned))
    /\ Unread = SubSeq(kbd_accepted, Len(kbd_returned) + Taken + 1, Len(kbd_accepted))
    /\ kbd_pc = "store" =>
          /\ Len(kbd_accepted) > Len(kbd_returned)
          /\ kbd_c = kbd_accepted[Len(kbd_returned) + 1]
    /\ kbd_pc \in {"read", "load"} =>
          /\ Len(kbd_accepted) > Len(kbd_returned)
          /\ kbd_buffer[kbd_idx] = kbd_accepted[Len(kbd_returned) + 1]
    /\ (kbd_last.c # 0 /\ ~kbd_last.put) => kbd_last.full

\* keyboard_getchar has loaded a cell and not yet advanced the tail when an
\* interrupt finds the ring full and drops its byte; one byte was returned
\* before, and the ring has wrapped.
C10_Witness ==
    /\ kbd_pc = "store"
    /\ kbd_last.c # 0
    /\ kbd_last.full
    /\ ~kbd_last.put
    /\ Len(kbd_returned) = 1
    /\ kbd_buffer_head < kbd_buffer_tail

\* The bytes accepted and not yet taken out by keyboard_getchar.
Stored == Len(kbd_accepted) - Len(kbd_returned) - Taken

\* C11: in every reachable state head and tail are in 0 .. N-1, the ring is
\* empty exactly when head = tail, it holds at most N-1 bytes, and the last
\* interrupt that had a byte to enqueue was refused exactly when
\* (head+1) mod N = tail; and an interrupt whose byte is refused leaves head,
\* tail and every unread cell as they were.
C11_RingPredicates ==
    /\ [](/\ kbd_buffer_head \in 0..(KBD_BUFFER_SIZE - 1)
          /\ kbd_buffer_tail \in 0..(KBD_BUFFER_SIZE - 1)
          /\ (Stored = 0) <=> (kbd_buffer_head = kbd_buffer_tail)
          /\ Stored <= KBD_BUFFER_SIZE - 1
          /\ Stored = (kbd_buffer_head - kbd_buffer_tail + KBD_BUFFER_SIZE) % KBD_BUFFER_SIZE
          /\ kbd_last.c # 0 => (kbd_last.put <=> ~kbd_last.full))
    /\ [][(kbd_irqs' # kbd_irqs /\ kbd_last'.c # 0 /\ kbd_last'.full) =>
             /\ kbd_buffer_head' = kbd_buffer_head
             /\ kbd_buffer_tail' = kbd_buffer_tail
             /\ Unread' = Unread
             /\ kbd_accepted' = kbd_accepted]_vars

\* The ring holds N-1 bytes, none read yet, and the last interrupt's byte
\* was refused.
C11_Witness ==
    /\ Stored = KBD_BUFFER_SIZE - 1
    /\ (kbd_buffer_head + 1) % KBD_BUFFER_SIZE = kbd_buffer_tail
    /\ kbd_last.c # 0
    /\ kbd_last.full
    /\ ~kbd_last.put
    /\ kbd_returned = <<>>

\* C12: keyboard_getchar returns only when a byte was stored for it, and it
\* takes the path to the load only on finding head # tail; and, with timer
\* interrupts delivered for ever, a caller inside keyboard_getchar while an
\* accepted byte is still unreturned eventually returns a byte, also when the
\* keyboard interrupt came between the emptiness check and hlt.
C12_GetcharBlocksUntilByte ==
    /\ [][/\ kbd_returned' # kbd_returned => Len(kbd_accepted) > Len(kbd_returned)
          /\ (kbd_pc = "check" /\ kbd_pc' = "index") => kbd_buffer_head # kbd_buffer_tail
          /\ (kbd_pc = "check" /\ kbd_pc' = "hlt") => kbd_buffer_head = kbd_buffer_tail]_vars
    /\ \A k \in 0..MaxIrqs :
          (kbd_pc # "idle" /\ Len(kbd_returned) = k /\ Len(kbd_accepted) > k)
             ~> (Len(kbd_returned) > k)

\* keyboard_getchar found the ring empty, the keyboard interrupt stored a
\* byte before hlt, and the CPU is now halted with the byte waiting.
C12_Witness ==
    /\ kbd_pc = "halted"
    /\ kbd_buffer_head # kbd_buffer_tail
    /\ Len(kbd_accepted) > Len(kbd_returned)

(***************************************************************************)
(* Claims about the virtio-net driver                                      *)
(***************************************************************************)

\* The j-th frame published by virtio_net_send (j from 1) is in place: its
\* ring entry, its descriptor and its buffer are what that call had to write.
TxComplete(j) ==
    LET sent == vn_sent[j]
    IN  /\ tx_queue.avail.ring[(j - 1) % tx_queue.size] = sent.slot
        /\ tx_queue.desc[sent.slot] =
              Desc(tx_queue.buffers[sent.slot], NET_HDR_SIZE + sent.len, 0, 0)
        /\ vn_buffers[tx_queue.buffers[sent.slot]] = Content("zero", sent.data, sent.len)

\* The RX available entry number j (from 0) is in place: the ring entry names
\* a descriptor that is completely written for the device to fill.
RxComplete(j) ==
    LET e == rx_queue.avail.ring[j % rx_queue.size]
    IN  rx_queue.desc[e] = Desc(rx_queue.buffers[e], NET_BUFFER_SIZE, VIRTQ_DESC_F_WRITE, 0)

\* C13: the TX avail.idx counts exactly the frames whose idx store has
\* happened, and at that store the ring entry, the descriptor and the buffer
\* of the frame are completely written; the entries the device has yet to
\* take, among the last size-1 published (those whose slot no later send has
\* begun to reuse), stay so; every RX available entry the device has yet to
\* take names a completely written descriptor, at every step of the re-add;
\* and each doorbell write comes with avail.idx already stored.
C13_PublishAfterWrites ==
    /\ [](/\ tx_queue.avail.idx = Len(vn_sent) % U16
          /\ \A j \in 1..Len(vn_sent) :
                (j > dev_tx_next /\ j > Len(vn_sent) - (tx_queue.size - 1)) => TxComplete(j)
          /\ \A j \in 0..(VqSize + MaxVnCalls) :
                (j >= dev_rx_next /\ j < rx_queue.avail.idx) => RxComplete(j))
    /\ [][/\ tx_queue'.avail.idx # tx_queue.avail.idx =>
                /\ Len(vn_sent') = Len(vn_sent) + 1
                /\ \E j \in 1..MaxVnCalls : j = Len(vn_sent') /\ TxComplete(j)'
          /\ rx_queue'.avail.idx # rx_queue.avail.idx =>
                /\ rx_queue'.avail.ring[rx_queue.avail.idx % rx_queue.size] = vn_call.desc_idx
                /\ \E j \in 0..(VqSize + MaxVnCalls) :
                      j = rx_queue.avail.idx /\ RxComplete(j)'
          /\ vn_notify'[1] # vn_notify[1] =>
                tx_queue.avail.idx = (vn_call.avail_idx + 1) % U16
          /\ vn_notify'[0] # vn_notify[0] =>
                rx_queue.avail.idx = (vn_call.avail_idx + 1) % U16]_vars

\* The device took the second frame after its idx store and before the
\* doorbell, and read it whole.
C13_Witness ==
    /\ vn_pc = "s_notify"
    /\ Len(vn_sent) = 2
    /\ Len(dev_tx_got) = 2
    /\ dev_tx_got[2] =
          [id |-> vn_sent[2].slot,
           desc |-> Desc(tx_queue.buffers[vn_sent[2].slot], NET_HDR_SIZE + vn_sent[2].len, 0, 0),
           content |-> Content("zero", vn_sent[2].data, vn_sent[2].len)]

\* C14: a virtio_net_receive call that finds last_used_idx = used.idx returns
\* 0 and leaves both queues and the doorbell counts as they were; any other
\* call, when it returns, has advanced last_used_idx by one, put the id it
\* read from used.ring[last_used_idx mod size] into the RX available ring,
\* advanced the RX avail.idx by one and written the RX doorbell once, whatever
\* length the device reported; it never touches the TX queue.
C14_ReceiveTakesOne ==
    [][/\ (vn_pc = "idle" /\ vn_calls' # vn_calls /\ vn_call'.op = "receive"
              /\ rx_queue.last_used_idx = rx_queue.used.idx) =>
             /\ vn_pc' = "idle"
             /\ vn_ret' = 0
             /\ rx_queue' = rx_queue
             /\ tx_queue' = tx_queue
             /\ vn_notify' = vn_notify
       /\ (vn_pc = "idle" /\ vn_calls' # vn_calls /\ vn_call'.op = "receive"
              /\ rx_queue.last_used_idx # rx_queue.used.idx) =>
             vn_pc' = "r_elem"
       /\ (vn_pc = "r_notify" /\ vn_pc' = "idle") =>
             LET pre == vn_call.pre
             IN  /\ rx_queue'.last_used_idx = (pre.last_used_idx + 1) % U16
                 /\ rx_queue'.avail.idx = (pre.avail_idx + 1) % U16
                 /\ rx_queue'.avail.ring =
                       [pre.ring EXCEPT ![pre.avail_idx % rx_queue.size] = pre.used_id]
                 /\ vn_notify'[0] = pre.notify[0] + 1
                 /\ vn_notify'[1] = pre.notify[1]
       /\ (vn_call.op = "receive" /\ vn_pc # "idle") =>
             /\ tx_queue'.desc = tx_queue.desc
             /\ tx_queue'.avail = tx_queue.avail
             /\ rx_queue'.last_used_idx \in
                   {rx_queue.last_used_idx, (vn_call.pre.last_used_idx + 1) % U16}]_vars

\* A receive has returned 0 for an entry whose reported length was not above
\* the header's, and the slot is back in the available ring.
C14_Witness ==
    /\ vn_pc = "idle"
    /\ vn_call.op = "receive"
    /\ vn_ret = 0
    /\ rx_queue.used.ring[0].len = NET_HDR_SIZE
    /\ rx_queue.last_used_idx = 1
    /\ rx_queue.avail.idx = VqSize + 1
    /\ vn_notify[0] = 2

\* Sends that have stored their avail.idx and not yet returned.
SendTail == IF vn_pc \in {"s_notify", "s_done"} THEN 1 ELSE 0

\* C15: the k-th successful virtio_net_send (k from 0) publishes slot
\* k mod size; the slot a send writes is the number of sends before it mod
\* size; a send with an acceptable length goes ahead whatever the device has
\* consumed; and the driver never advances its place in the TX used ring.
C15_TxSlotRotates ==
    /\ [](/\ \A k \in 1..Len(vn_sent) : vn_sent[k].slot = (k - 1) % tx_queue.size
          /\ tx_idx = (Len(vn_sent) - SendTail) % tx_queue.size
          /\ tx_queue.last_used_idx = 0)
    /\ [][(vn_pc = "idle" /\ vn_calls' # vn_calls /\ vn_call'.op = "send"
              /\ vn_call'.len <= NET_BUFFER_SIZE - NET_HDR_SIZE) =>
             vn_pc' = "s_hdr"]_vars

\* A send has written its frame into the buffer of a slot whose earlier frame
\* the device has not taken yet.
C15_Witness ==
    /\ vn_pc = "s_addr"
    /\ \E j \in 1..Len(vn_sent) :
          /\ j > dev_tx_next
          /\ vn_sent[j].slot = tx_idx
          /\ vn_buffers[tx_queue.buffers[tx_idx]].data # vn_sent[j].data

(***************************************************************************)
(* Claims about interrupt bring-up and dispatch                            *)
(***************************************************************************)

\* End-Of-Interrupt writes to a PIC command port in a dispatch's log.
EoiWrites(log, port) ==
    Cardinality({i \in 1..Len(log) : log[i] = <<"outb", port, PIC_EOI>>})

\* Callback runs in a dispatch's log.
CallbackRuns(log) == Cardinality({i \in 1..Len(log) : log[i][1] = "callback"})

\* C16: when isr_handler is about to return from a dispatch of vector v, for
\* 32 <= v <= 47 it has written exactly one EOI to the master PIC, exactly one
\* to the slave PIC if v >= 40 and none otherwise, and the registered callback,
\* if any, ran once and before them; for any other vector it has written
\* nothing to a PIC; and nothing is written before the callback has returned.
C16_EoiPerDispatch ==
    /\ isr_pc \in {"entry", "callback"} => isr_log = <<>>
    /\ isr_pc = "ret" =>
          /\ CallbackRuns(isr_log) = (IF handlers[isr_vector] THEN 1 ELSE 0)
          /\ handlers[isr_vector] => isr_log[1] = <<"callback", isr_vector, 0>>
          /\ IF isr_vector >= 32 /\ isr_vector <= 47
             THEN /\ EoiWrites(isr_log, PIC1_COMMAND) = 1
                  /\ EoiWrites(isr_log, PIC2_COMMAND) = (IF isr_vector >= 40 THEN 1 ELSE 0)
                  /\ Len(isr_log) = CallbackRuns(isr_log) + 1
                                      + (IF isr_vector >= 40 THEN 1 ELSE 0)
             ELSE Len(isr_log) = CallbackRuns(isr_log)

\* A dispatch of vector 40 with a callback registered is about to return:
\* the callback, then the slave's EOI, then the master's.
C16_Witness ==
    /\ isr_pc = "ret"
    /\ isr_vector = 40
    /\ isr_log = << <<"callback", 40, 0>>, <<"outb", PIC2_COMMAND, PIC_EOI>>,
                    <<"outb", PIC1_COMMAND, PIC_EOI>> >>

\* What idt_init has to have done before interrupts are enabled.
BringUpDone ==
    /\ IdtNext = "done"
    /\ \A v \in IdtVectors : v < 48 => idt[v] = "stub"
    /\ pic.master = [expect |-> "mask", offset |-> 32, mask |-> 252]
    /\ pic.slave = [expect |-> "mask", offset |-> 40, mask |-> 255]
    /\ Bit(pic.master.mask, 1) = 0
    /\ idtr = "idt"

\* C17: the interrupt flag is set only once idt_init has cleared the callback
\* table, pointed gates 0-47 at their stubs, remapped both PICs to 0x20/0x28
\* and written the masks with IRQ1 unmasked, and loaded the IDT register; the
\* step of idt_init that sets the flag is its last; the callback table is
\* empty when the flag is first set; and no interrupt from a PIC is in
\* isr_handler before all that.
C17_StiLast ==
    /\ [](/\ cpu_if => BringUpDone
          /\ (isr_pc # "none" /\ isr_source = "irq") => BringUpDone)
    /\ [][(cpu_if' /\ ~cpu_if /\ idt_step' # idt_step) =>
             /\ IdtNext = "sti"
             /\ IdtNext' = "done"
             /\ \A v \in IdtVectors : ~handlers[v]]_vars

\* The keyboard interrupt is in isr_handler, the first dispatch after
\* idt_init.
C17_Witness ==
    /\ isr_pc = "entry"
    /\ isr_source = "irq"
    /\ isr_vector = 33
    /\ idt_dispatches = 1
    /\ BringUpDone

\* C18: a dispatch of a vector below 32 with no callback registered goes to
\* cli and from there only to the halt, with the interrupt flag clear, where
\* the CPU stays: no step leaves it, nothing more is written to a PIC and no
\* callback runs; with a callback registered the dispatch runs the callback,
\* writes no EOI and returns.
C18_UnhandledExceptionHalts ==
    /\ [](isr_pc \in {"msg", "hlt"} =>
             /\ ~cpu_if
             /\ isr_vector < 32
             /\ ~handlers[isr_vector]
             /\ isr_log = <<>>)
    /\ [][/\ (isr_pc = "entry" /\ isr_vector < 32 /\ ~handlers[isr_vector]) => isr_pc' = "cli"
          /\ isr_pc = "cli" => isr_pc' \in {"cli", "msg"}
          /\ isr_pc = "msg" => isr_pc' \in {"msg", "hlt"}
          /\ isr_pc = "hlt" => UNCHANGED idtVars
          /\ (isr_pc = "entry" /\ isr_vector < 32 /\ handlers[isr_vector]) =>
                isr_pc' = "callback"
          /\ (isr_pc = "callback" /\ isr_vector < 32) =>
                (isr_pc' = "eoi" /\ isr_log' = << <<"callback", isr_vector, 0>> >>)
          /\ (isr_pc = "eoi" /\ isr_vector < 32) =>
                (isr_pc' = "ret" /\ isr_log' = isr_log)
          /\ (isr_pc = "ret" /\ isr_vector < 32) =>
                (isr_pc' = "none" /\ cpu_if' = isr_saved_if)]_vars

\* A page fault with no callback registered, raised with interrupts enabled
\* and the keyboard callback registered, has halted the CPU.
C18_Witness ==
    /\ isr_pc = "hlt"
    /\ isr_vector = 14
    /\ isr_saved_if
    /\ ~cpu_if
    /\ handlers[33]

(***************************************************************************)
(* Claims about contiguous frame allocation                                *)
(***************************************************************************)

\* The start indices of the runs of n consecutive clear bits in a bitmap.
RunStarts(bm, n) ==
    {s \in 0..(PMM_TOTAL_PAGES - 1) :
        \A k \in 0..(n - 1) : s + k < PMM_TOTAL_PAGES /\ ~pmm_test_bit(bm, s + k)}

\* The least element of a non-empty set of indices.
Lowest(S) == CHOOSE s \in S : \A t \in S : s <= t

\* A bitmap differs from another in exactly the bits of the run [s, s + n),
\* which are set.
ExactlyRunSet(before, after, s, n) ==
    \A i \in 0..(PMM_BITMAP_SIZE - 1) : \A k \in 0..7 :
        Bit(after[i], k) = IF (8 * i) + k >= s /\ (8 * i) + k < s + n
                           THEN 1 ELSE Bit(before[i], k)

\* C19: a call pmm_alloc_pages(n), n >= 1, returns non-null exactly when the
\* bitmap has n consecutive clear bits; it then returns the address of the
\* lowest such run, sets those n bits and no other, and lowers the free count
\* by n, whatever shorter runs lie below it. A pmm_free_pages of the run an
\* allocation just returned clears the run, and the lowest run of n clear bits
\* is at that address again.
C19_AllocPagesLowestRun ==
    [][/\ (pmm_call'.op = "alloc_pages" /\ pmm_call'.count >= 1) =>
            LET n == pmm_call'.count
                runs == RunStarts(pmm_bitmap, n)
            IN  /\ (pmm_ret' # NULL) <=> (runs # {})
                /\ runs # {} =>
                      /\ pmm_ret' = PMM_START_ADDR + (Lowest(runs) * PMM_PAGE_SIZE)
                      /\ ExactlyRunSet(pmm_bitmap, pmm_bitmap', Lowest(runs), n)
                      /\ pmm_free_count' = pmm_free_count - n
       /\ (/\ pmm_call.op = "alloc_pages" /\ pmm_call.count >= 1 /\ pmm_ret # NULL
           /\ pmm_call'.op = "free_pages"
           /\ pmm_call'.addr = pmm_ret /\ pmm_call'.count = pmm_call.count) =>
            LET n == pmm_call.count
                s == (pmm_ret - PMM_START_ADDR) \div PMM_PAGE_SIZE
            IN  /\ s \in RunStarts(pmm_bitmap', n)
                /\ Lowest(RunStarts(pmm_bitmap', n)) = s
                /\ pmm_free_count' = pmm_free_count + n]_vars

\* pmm_alloc_pages(2) has returned frame 3: frame 0 is free and frame 1 is
\* not, so the run of one free frame at 0 was passed over.
C19_Witness ==
    /\ pmm_call.op = "alloc_pages"
    /\ pmm_call.count = 2
    /\ pmm_ret = PMM_START_ADDR + (3 * PMM_PAGE_SIZE)
    /\ ~pmm_test_bit(pmm_bitmap, 0)
    /\ pmm_test_bit(pmm_bitmap, 1)
    /\ pmm_test_bit(pmm_bitmap, 2)

\* C20: pmm_alloc_pages(0) returns null; pmm_alloc_page with no clear bit and
\* pmm_alloc_pages(n) with no run of n clear bits return null; and every
\* pmm_alloc_page or pmm_alloc_pages call that returns null leaves the bitmap
\* and the free count as they were.
C20_FailedAllocChangesNothing ==
    [][/\ (pmm_call'.op = "alloc_pages" /\ pmm_call'.count = 0) => pmm_ret' = NULL
       /\ (pmm_call'.op = "alloc_pages" /\ pmm_call'.count >= 1
             /\ RunStarts(pmm_bitmap, pmm_call'.count) = {}) => pmm_ret' = NULL
       /\ (pmm_call'.op = "alloc_page" /\ ClearBits(pmm_bitmap) = {}) => pmm_ret' = NULL
       /\ (pmm_call'.op \in {"alloc_page", "alloc_pages"} /\ pmm_ret' = NULL) =>
             /\ pmm_bitmap' = pmm_bitmap
             /\ pmm_free_count' = pmm_free_count]_vars

\* pmm_alloc_pages(2) has returned null with three frames free, no two of
\* them adjacent.
C20_Witness ==
    /\ pmm_call.op = "alloc_pages"
    /\ pmm_call.count = 2
    /\ pmm_ret = NULL
    /\ pmm_free_count = 3
    /\ ClearBits(pmm_bitmap) = {0, 2, 4}

(***************************************************************************)
(* Claims about freeing frames                                             *)
(***************************************************************************)

\* An address lies in the managed window.
InWindow(addr) == addr >= PMM_START_ADDR /\ addr < PMM_START_ADDR + PMM_MEMORY_SIZE

\* The frames of the window that the n frame-sized steps from addr name.
NamedFrames(addr, n) ==
    {(addr + (i * PMM_PAGE_SIZE) - PMM_START_ADDR) \div PMM_PAGE_SIZE :
        i \in {k \in 0..(n - 1) : InWindow(addr + (k * PMM_PAGE_SIZE))}}

\* C21: pmm_free_page(addr) with addr outside the window, or naming a frame
\* whose bit is clear, changes neither the bitmap nor the free count;
\* pmm_free_pages(addr, n) clears exactly the set bits among the frames of the
\* window that its n steps name, leaves every other bit as it was, and raises
\* the free count by the number of bits it cleared.
C21_FreeSkipsWhatIsNotHeld ==
    [][/\ (/\ pmm_call'.op = "free_page"
           /\ \/ ~InWindow(pmm_call'.addr)
              \/ ~pmm_test_bit(pmm_bitmap,
                      (pmm_call'.addr - PMM_START_ADDR) \div PMM_PAGE_SIZE)) =>
             (pmm_bitmap' = pmm_bitmap /\ pmm_free_count' = pmm_free_count)
       /\ pmm_call'.op = "free_pages" =>
            LET named == NamedFrames(pmm_call'.addr, pmm_call'.count)
                held == named \cap SetBits(pmm_bitmap)
            IN  /\ SetBits(pmm_bitmap') = SetBits(pmm_bitmap) \ held
                /\ \A i \in 0..(PMM_BITMAP_SIZE - 1) : \A k \in 0..7 :
                      (8 * i) + k \notin held =>
                          Bit(pmm_bitmap'[i], k) = Bit(pmm_bitmap[i], k)
                /\ pmm_free_count' = pmm_free_count + Cardinality(held)]_vars

\* pmm_free_pages(BASE - 4096, 3) has run with frame 2 allocated: its first
\* step is below the window, its other two name frames 0 and 1, now both free.
C21_Witness ==
    /\ pmm_call.op = "free_pages"
    /\ pmm_call.addr = PMM_START_ADDR - PMM_PAGE_SIZE
    /\ pmm_call.count = 3
    /\ SetBits(pmm_bitmap) = {2}
    /\ pmm_free_count = PMM_TOTAL_PAGES - 1

(***************************************************************************)
(* Claims about who owns which memory                                      *)
(***************************************************************************)

\* An address lies in the region kernel_main hands to heap_init.
InHeapRegion(addr) == addr >= HEAP_START /\ addr < HEAP_START + HEAP_SIZE

\* C22: no address pmm_alloc_page or pmm_alloc_pages returns lies in the
\* region kernel_main hands to heap_init, and no payload kmalloc returns lies
\* in a frame of the frame allocator's window.
C22_FramesAndHeapDisjoint ==
    /\ (pmm_call.op \in {"alloc_page", "alloc_pages"} /\ pmm_ret # NULL) =>
          ~InHeapRegion(pmm_ret)
    /\ (heap_call.op = "kmalloc" /\ heap_ret # NULL) => ~InWindow(heap_ret)

(***************************************************************************)
(* Claims about the disk driver                                            *)
(***************************************************************************)

\* A read or a write of the disk driver has returned, on a machine where
\* ata_init found a drive.
AtaReturned ==
    /\ ata_pc = "idle"
    /\ ata_call.op \in {"read", "write"}
    /\ ata_drive_present # 0

\* The data words a call moved through the data register.
DataWords(log) == Cardinality({k \in 1..Len(log) : log[k][1] \in {"inw", "outw"}})

\* C23: a read or a write in which a status wait ran out of turns or saw the
\* error bit (the first wait for BSY clear, a wait for DRQ, or the write's
\* last wait for BSY clear) has returned a negative value, and one that
\* returned 0 had every wait succeed.
C23_WaitFailureIsReported ==
    AtaReturned => ((ata_ret < 0) <=> ata_wait_failed)

C26_ZeroCountIs256 ==
    (AtaReturned /\ ata_call.count = 0 /\ ata_ret = 0) =>
        DataWords(ata_log) = 256 * SectorWords

\* C27: when ata_write_sectors(lba, n, buf) returned 0 and the next call,
\* ata_read_sectors(lba, n, out), returned 0, out holds the words of buf over
\* the n sectors, for n >= 1 and lba below 2^28.
C27_WriteThenReadRoundTrip ==
    (/\ AtaReturned
     /\ ata_call.op = "read" /\ ata_ret = 0
     /\ ata_prev.call.op = "write" /\ ata_prev.ret = 0
     /\ ata_call.lba = ata_prev.call.lba /\ ata_call.lba < 268435456
     /\ ata_call.count = ata_prev.call.count /\ ata_call.count >= 1) =>
        \A k \in 1..(ata_call.count * SectorWords) : ata_out[k] = ata_prev.call.buf[k]

(***************************************************************************)
(* Claims about the network device driver                                  *)
(***************************************************************************)

\* C30: a virtio_net_receive that took a used entry of reported length L
\* returns 0 and writes nothing to the caller's buffer when L is at most the
\* 10 bytes of the virtio-net header; otherwise it returns the smaller of
\* L - 10 and max_len and has copied that many bytes of the slot's buffer,
\* starting after the header.  It never writes more than max_len bytes.
C30_ReceiveLength ==
    [][/\ (vn_pc = "r_copy" /\ vn_pc' = "r_addr") =>
             LET L == vn_call.rlen
                 m == vn_call.max_len
                 n == IF L <= 10 THEN 0 ELSE IF L - 10 < m THEN L - 10 ELSE m
             IN  /\ vn_call'.rlen = n
                 /\ n <= m
                 /\ IF L <= 10
                    THEN vn_out' = vn_out
                    ELSE vn_out' = [data |-> vn_buffers[rx_queue.buffers[vn_call.desc_idx]].data,
                                    n |-> n]
       /\ (vn_call.op = "receive" /\ vn_pc \in {"r_addr", "r_len", "r_flags", "r_next",
                                                 "r_ring", "r_idx", "r_notify"}) =>
             /\ vn_call'.rlen = vn_call.rlen
             /\ vn_out' = vn_out
       /\ (vn_pc = "r_notify" /\ vn_pc' = "idle") => vn_ret' = vn_call.rlen]_vars

\* A receive with max_len 1 has returned 1 for a frame of 2 bytes (reported
\* length 12), one byte copied.
C30_Witness ==
    /\ vn_pc = "idle"
    /\ vn_call.op = "receive"
    /\ vn_call.max_len = 1
    /\ vn_ret = 1
    /\ vn_out.n = 1
    /\ rx_queue.last_used_idx = 1
    /\ rx_queue.used.ring[0].len = 12

\* The values written to the NIC's status register so far, in order.
StatusWrites ==
    SelectSeq(vn_regs, LAMBDA e : e[1] = "outb" /\ e[2] = VIRTIO_PCI_STATUS)

StatusValues == [k \in 1..Len(StatusWrites) |-> StatusWrites[k][3]]

IsPrefix(s, t) == Len(s) <= Len(t) /\ \A k \in 1..Len(s) : s[k] = t[k]

Accessed(entry) == \E k \in 1..Len(vn_regs) : vn_regs[k] = entry

\* The page frame number written for queue q: a write to QUEUE_PFN whose
\* latest queue select before it chose q.
PfnPublished(q) ==
    \E k \in 1..Len(vn_regs) :
        /\ vn_regs[k][1] = "outl" /\ vn_regs[k][2] = VIRTIO_PCI_QUEUE_PFN
        /\ vn_regs[k][3] # 0
        /\ \E j \in 1..(k - 1) :
              /\ vn_regs[j] = <<"outw", VIRTIO_PCI_QUEUE_SEL, q>>
              /\ \A m \in (j + 1)..(k - 1) : vn_regs[m][2] # VIRTIO_PCI_QUEUE_SEL

\* Every RX slot is in the available ring and avail.idx counts them all.
AllRxSlotsAvailable(vq) ==
    /\ vq.size > 0
    /\ vq.avail.idx = vq.size
    /\ \A i \in 0..(vq.size - 1) : \E k \in 0..(vq.size - 1) : vq.avail.ring[k] = i

RxSlotsPublished(vq) ==
    \A i \in 0..(vq.size - 1) :
        /\ vq.desc[i].addr = vq.buffers[i]
        /\ vq.desc[i].len = NET_BUFFER_SIZE
        /\ vq.desc[i].flags = VIRTQ_DESC_F_WRITE

C24_AbsentDevicesFailCleanly ==
    /\ (ata_hw.bus = "none" /\ ata_pc = "idle") =>
          /\ ata_drive_present = 0
          /\ ata_call.op \in {"read", "write"} =>
                /\ ata_ret < 0
                /\ ~ata_io
                /\ ata_log = <<>>
                /\ ata_out = FreshBuffer
                /\ drv = DriveIdle
    /\ (~pci_has_nic /\ net_pc = "idle") =>
          /\ net_inited = 0
          /\ virtio_initialized = 0
          /\ net_call.op = "is_initialized" => net_ret = 0
          /\ net_call.op \in {"send", "receive", "ping"} => net_ret < 0
          /\ vn_regs = <<>>
          /\ rx_queue = NoQueue
          /\ tx_queue = NoQueue
          /\ vn_notify = [q \in {0, 1} |-> 0]
          /\ vn_pc = "idle"

\* On a machine with neither a disk controller nor a NIC, a read of the
\* disk and a send on the network have both returned -1.
C24_Witness ==
    /\ ata_hw.bus = "none"
    /\ ata_pc = "idle"
    /\ ata_call.op = "read"
    /\ ata_ret = 0 - 1
    /\ ~pci_has_nic
    /\ net_pc = "idle"
    /\ net_call.op = "send"
    /\ net_ret = 0 - 1

(***************************************************************************)
(* Claims about the loopback round trip                                    *)
(***************************************************************************)

\* C31: against the loopback device, a virtio_net_receive(buf, max) that
\* takes the echo of the latest virtio_net_send(p, len), with max >= len,
\* returns len with buf holding the len bytes of p; when it returns,
\* last_used_idx has advanced by exactly one and the slot it took is back in
\* the RX available ring.
C31_LoopbackRoundTrip ==
    [][/\ (vn_pc = "r_copy" /\ vn_pc' = "r_addr"
              /\ Len(vn_sent) = rx_queue.last_used_idx
              /\ Len(vn_sent) > 0
              /\ vn_call.max_len >= vn_sent[Len(vn_sent)].len) =>
             LET sent == vn_sent[Len(vn_sent)]
             IN  /\ vn_call'.rlen = sent.len
                 /\ vn_out' = [data |-> sent.data, n |-> sent.len]
       /\ (vn_call.op = "receive" /\ vn_pc \in {"r_addr", "r_len", "r_flags", "r_next",
                                                 "r_ring", "r_idx", "r_notify"}) =>
             /\ vn_call'.rlen = vn_call.rlen
             /\ vn_out' = vn_out
             /\ vn_sent' = vn_sent
       /\ (vn_pc = "r_notify" /\ vn_pc' = "idle") =>
             LET pre == vn_call.pre
             IN  /\ vn_ret' = vn_call.rlen
                 /\ rx_queue'.last_used_idx = (pre.last_used_idx + 1) % U16
                 /\ rx_queue'.avail.idx = (pre.avail_idx + 1) % U16
                 /\ rx_queue'.avail.ring[pre.avail_idx % rx_queue.size] = pre.used_id]_vars

\* A frame of 2 bytes was sent, echoed, and received whole with max_len 64.
C31_Witness ==
    /\ vn_pc = "idle"
    /\ vn_call.op = "receive"
    /\ vn_call.max_len = 64
    /\ vn_ret = 2
    /\ Len(vn_sent) = 1
    /\ vn_sent[1].len = 2
    /\ vn_out = [data |-> vn_sent[1].data, n |-> 2]
    /\ rx_queue.last_used_idx = 1
    /\ rx_queue.avail.idx = VqSize + 1

(***************************************************************************)
(* Claims about the keyboard's modifiers and translation                   *)
(***************************************************************************)

IsShiftKey(sc) == sc = SC_LSHIFT \/ sc = SC_RSHIFT

IsModifierKey(sc) == IsShiftKey(sc) \/ sc = SC_CTRL \/ sc = SC_ALT \/ sc = SC_CAPS

\* The positions of the caps-lock presses in the history.
CapsPresses == {i \in 1..Len(key_hist) : key_hist[i].byte = SC_CAPS}

\* C32: a shift press directly followed by the release of the same shift key
\* leaves shift, ctrl, alt and caps_lock as they were before the press,
\* whatever the flags were, another shift key being held included; and two
\* consecutive caps-lock presses, with any caps-lock releases between them,
\* leave caps_lock as it was before the first.
C32_ModifierRoundTrip ==
    /\ \A i \in 1..(Len(key_hist) - 1) :
          (IsShiftKey(key_hist[i].byte) /\ key_hist[i + 1].byte = key_hist[i].byte + 128) =>
              key_hist[i + 1].after = key_hist[i].before
    /\ \A i, j \in CapsPresses :
          (i < j /\ \A k \in (i + 1)..(j - 1) : key_hist[k].byte = SC_CAPS + 128) =>
              key_hist[j].after.caps = key_hist[i].before.caps

\* The byte a press of scancode sc makes under the flags f: the unshifted
\* table's entry, the shifted table's when shift is held, a letter upper
\* case iff shift differs from caps lock, and 3 for the 'c' key under ctrl.
ExpectedByte(sc, f) ==
    LET u == scancode_to_ascii[sc + 1]
        letter == u >= 97 /\ u <= 122
        c == IF letter THEN (IF f.shift # f.caps THEN u - 32 ELSE u)
             ELSE IF f.shift THEN scancode_to_ascii_shift[sc + 1] ELSE u
    IN  IF f.ctrl /\ sc = 46 THEN 3 ELSE c

\* C36: a press of a non-modifier key hands kbd_buffer_put the byte of the
\* tables (shifted when shift is held, letters upper case iff shift differs
\* from caps lock, 3 for 'c' under ctrl in every shift and caps-lock
\* combination); a release of a non-modifier key and a scancode the tables map
\* to 0 leave the ring and every flag as they were; shift, ctrl and alt follow
\* press and release, caps lock toggles on a press and ignores a release, and
\* a modifier key puts nothing in the ring.
C36_Translation ==
    \A i \in 1..Len(key_hist) :
        LET e == key_hist[i]
            released == e.byte >= 128
            sc == e.byte % 128
        IN  IF IsModifierKey(sc)
            THEN /\ e.c = 0
                 /\ e.ring
                 /\ e.after.shift = (IF IsShiftKey(sc) THEN ~released ELSE e.before.shift)
                 /\ e.after.ctrl = (IF sc = SC_CTRL THEN ~released ELSE e.before.ctrl)
                 /\ e.after.alt = (IF sc = SC_ALT THEN ~released ELSE e.before.alt)
                 /\ e.after.caps = (IF sc = SC_CAPS /\ ~released THEN ~e.before.caps
                                    ELSE e.before.caps)
            ELSE /\ e.after = e.before
                 /\ e.c = (IF released THEN 0 ELSE ExpectedByte(sc, e.before))
                 /\ (e.c = 0) => e.ring

\* With ctrl, shift and caps lock all set, a press of 'c' has made byte 3.
C36_Witness ==
    /\ Len(key_hist) = 4
    /\ key_hist[4].byte = 46
    /\ key_hist[4].before = [shift |-> TRUE, ctrl |-> TRUE, alt |-> FALSE, caps |-> TRUE]
    /\ key_hist[4].c = 3
    /\ ~key_hist[4].ring

(***************************************************************************)
(* Claims about the line readers                                           *)
(***************************************************************************)

RECURSIVE KeptLine(_)
\* The line a sequence of typed bytes leaves: a printable byte is appended, a
\* backspace removes the last kept character if there is one, and any other
\* byte changes nothing.
KeptLine(typed) ==
    IF typed = <<>> THEN <<>>
    ELSE LET k == KeptLine(SubSeq(typed, 1, Len(typed) - 1))
             c == typed[Len(typed)]
         IN  IF c = 8 THEN (IF k = <<>> THEN k ELSE SubSeq(k, 1, Len(k) - 1))
             ELSE IF c >= 32 /\ c < 127 THEN Append(k, c)
             ELSE k

\* The caller's buffer holds exactly the line and its NUL.
BufferHolds(line) ==
    /\ Len(line) <= rl.max_len - 1
    /\ \A i \in 1..Len(line) : rl.buffer[i - 1] = line[i]
    /\ rl.buffer[Len(line)] = 0

RlTypedBefore == SubSeq(rl.typed, 1, Len(rl.typed) - 1)

\* The reader returned on Enter with the line typed before it.
ReturnedOnEnter ==
    /\ rl.typed # <<>>
    /\ rl.typed[Len(rl.typed)] \in {10, 13}
    /\ BufferHolds(KeptLine(RlTypedBefore))

\* The reader returned on Ctrl+C with an empty buffer.
ReturnedOnCancel ==
    /\ rl.typed # <<>>
    /\ rl.typed[Len(rl.typed)] = 3
    /\ rl.buffer[0] = 0

\* The reader returned without a line end because max_len - 1 characters
\* were kept.
ReturnedOnFull ==
    /\ Len(KeptLine(rl.typed)) = rl.max_len - 1
    /\ BufferHolds(KeptLine(rl.typed))

IdentityMapBuilt ==
    /\ boot.pml4.base = "pdpt_table" /\ boot.pml4.bits % 4 = 3
    /\ boot.pdpt.base = "pd_table" /\ boot.pdpt.bits % 4 = 3
    /\ \A i \in 0..31 :
          /\ boot.pd[i] \div 2097152 = i
          /\ boot.pd[i] % 2097152 = 1 + 2 + 128

\* C34: kernel_main is reached only if the CPUID and long-mode checks pass,
\* after the identity map is built and CR3, CR4.PAE, EFER.LME and CR0.PG are
\* set in that order and the GDT is loaded; interrupts are disabled
\* throughout; and if a check fails the code writes 'C' or 'L' to the text
\* buffer and halts with paging off and kernel_main not called.
C34_BootPath ==
    /\ ~boot.iflag
    /\ boot.pc = "kernel_main" =>
          /\ boot.hw.cpuid /\ boot.hw.ext /\ boot.hw.lm
          /\ IdentityMapBuilt
          /\ boot.order = <<"cr3", "cr4.pae", "efer.lme", "cr0.pg", "gdt">>
          /\ boot.cr3 = "pml4_table"
          /\ {CR4_PAE} \subseteq boot.cr4 /\ {EFER_LME} \subseteq boot.efer
          /\ {CR0_PG} \subseteq boot.cr0
          /\ boot.gdtr = "gdt64"
    /\ (boot.pc \notin {"reset", "_start", "check_cpuid"} /\ ~boot.hw.cpuid) =>
          /\ boot.pc \in {"error", "halted"}
          /\ boot.al = 67
    /\ (boot.pc \notin {"reset", "_start", "check_cpuid", "check_long_mode"}
          /\ boot.hw.cpuid /\ ~(boot.hw.ext /\ boot.hw.lm)) =>
          /\ boot.pc \in {"error", "halted"}
          /\ boot.al = 76
    /\ boot.pc \in {"error", "halted"} =>
          /\ CR0_PG \notin boot.cr0
          /\ boot.order = <<>>
    /\ boot.pc = "halted" =>
          \E a \in DOMAIN boot.vga : boot.vga[a] = boot.al /\ boot.al \in {67, 76}

\* kernel_main has been called with the last directory entry mapping the
\* 2 MiB at 62 MiB.
C34_Witness ==
    /\ boot.pc = "kernel_main"
    /\ boot.pd[31] = 65011843
    /\ boot.edi = MULTIBOOT2_BOOT_MAGIC

(***************************************************************************)
(* Claims about the disk driver's bring-up                                 *)
(***************************************************************************)

\* ata_init has returned with no drive.
DriveLeftAbsent == ata_pc' = "idle" /\ ata_drive_present' = 0

\* C35: ata_init goes to the secondary channel only when the primary status
\* reads 0xFF; the drive is left absent when the status after IDENTIFY is 0,
\* when BSY outlasts the poll budget, when LBA mid or high is not 0, when ERR
\* is seen in the DRQ poll loop and when that loop's budget runs out; when a
\* poll of that loop sees DRQ without ERR, the last poll of the budget
\* included, the 256 data words are drained and the drive is marked present;
\* and the drive is marked present in no other way.
C35_IdentifyPresence ==
    [][/\ (ata_pc = "init_p" /\ ata_pc' = "init_s") =>
              DrvStatus(ata_hw, drv, ATA_PRIMARY_IO) = 255
       /\ (ata_pc = "id_status" /\ ata_pc' # ata_pc
              /\ DrvStatus(ata_hw, drv, ata_io_base) = 0) => DriveLeftAbsent
       /\ (ata_pc = "id_ready" /\ ata_pc' # ata_pc /\ ata_frame.timeout = 0) =>
              DriveLeftAbsent
       /\ (ata_pc = "id_lba" /\ ata_pc' # ata_pc /\ (drv.lba_mid # 0 \/ drv.lba_hi # 0)) =>
              DriveLeftAbsent
       /\ (ata_pc = "id_drq" /\ ata_pc' # ata_pc /\ ata_frame.timeout > 0
              /\ AndBits(DrvStatus(ata_hw, drv, ata_io_base), ATA_SR_ERR) # 0) =>
              DriveLeftAbsent
       /\ (ata_pc = "id_check" /\ ata_pc' # ata_pc) =>
              IF ata_frame.drq THEN ata_pc' = "id_data" ELSE DriveLeftAbsent
       /\ (ata_pc = "id_data" /\ ata_pc' # ata_pc) =>
              /\ ata_frame.i + 1 = SectorWords
              /\ ata_drive_present' = 1
       /\ (ata_drive_present = 0 /\ ata_drive_present' = 1) => ata_pc = "id_data"
      ]_vars

(***************************************************************************)
(* Claims about PCI enumeration                                            *)
(***************************************************************************)

\* Scan order of two slots: bus, then device, then function.
PciBefore(x, y) ==
    \/ x.bus < y.bus
    \/ x.bus = y.bus /\ x.device < y.device
    \/ x.bus = y.bus /\ x.device = y.device /\ x.function < y.function

PciMin(a, b) == IF a < b THEN a ELSE b

\* C37: the registry holds, in scan order, the first min(capacity, k) of the
\* k present functions found; functions other than 0 are examined only on a
\* device whose function 0 is present with the multi-function bit set; the
\* count never exceeds the capacity and functions found after that are
\* dropped without overwriting an entry; and pci_find_device and
\* pci_find_class return the first matching entry and leave the registry as
\* it is.
C37_Registry ==
    /\ pci.count <= MAX_PCI_DEVICES
    /\ pci.count = PciMin(MAX_PCI_DEVICES, Len(pci.present))
    /\ \A i \in 0..(MAX_PCI_DEVICES - 1) :
          pci.devices[i] = IF i < pci.count THEN pci.present[i + 1] ELSE NoPciDevice
    /\ \A i, j \in 1..Len(pci.present) :
          i < j => PciBefore(pci.present[i], pci.present[j])
    /\ \A i \in 1..Len(pci.examined) :
          pci.examined[i].func > 0 =>
              \E j \in 1..(i - 1) :
                  /\ pci.examined[j].bus = pci.examined[i].bus
                  /\ pci.examined[j].device = pci.examined[i].device
                  /\ pci.examined[j].func = 0
                  /\ pci.examined[j].present /\ pci.examined[j].multi
    /\ pci.last.op = "pci_find_device" =>
          LET hits == {i \in 1..PciMin(MAX_PCI_DEVICES, Len(pci.present)) :
                          /\ pci.present[i].vendor_id = pci.last.a
                          /\ pci.present[i].device_id = pci.last.b}
          IN  /\ pci.last.ret = (IF hits = {} THEN 0 ELSE 1)
              /\ hits # {} =>
                    /\ pci.last.out \in {pci.present[i] : i \in hits}
                    /\ \A i \in hits : ~PciBefore(pci.present[i], pci.last.out)
    /\ pci.last.op = "pci_find_class" =>
          LET hits == {i \in 1..PciMin(MAX_PCI_DEVICES, Len(pci.present)) :
                          /\ pci.present[i].class_code = pci.last.a
                          /\ pci.present[i].subclass = pci.last.b}
          IN  /\ pci.last.ret = (IF hits = {} THEN 0 ELSE 1)
              /\ hits # {} =>
                    /\ pci.last.out \in {pci.present[i] : i \in hits}
                    /\ \A i \in hits : ~PciBefore(pci.present[i], pci.last.out)

\* The scan found three functions, one of them a function 1, kept the first
\* two, and a search by class has returned the first of two network cards.
C37_Witness ==
    /\ pci.pc = "done"
    /\ Len(pci.present) = MAX_PCI_DEVICES + 1
    /\ \E i \in 1..Len(pci.present) : pci.present[i].function = 1
    /\ pci.count = MAX_PCI_DEVICES
    /\ pci.devices[0].class_code = 2 /\ pci.devices[1].class_code = 2
    /\ pci.last.op = "pci_find_class" /\ pci.last.a = 2 /\ pci.last.ret = 1
    /\ pci.last.out = pci.devices[0]

(***************************************************************************)
(* Claims about the shape of the heap's block list                         *)
(***************************************************************************)

RECURSIVE BlockBytes(_)
\* The bytes the blocks of a list view take, headers included.
BlockBytes(list) ==
    IF list = <<>> THEN 0
    ELSE HEADER_SIZE + list[1].size + BlockBytes(Tail(list))

\* C38: at every operation boundary the list's blocks are in strictly
\* increasing address order, each block's successor starts at the block's
\* address plus the header plus its payload size, the last block ends at the
\* heap's start plus its size, and the headers and payloads of all blocks add
\* up to the heap's size.
C38_ListTilesHeap ==
    ~heap_lost =>
        LET list == BlockView(HeapNow)
        IN  /\ list # <<>>
            /\ list[1].addr = heap_start
            /\ \A i \in 1..(Len(list) - 1) :
                  /\ list[i].addr < list[i + 1].addr
                  /\ list[i + 1].addr = list[i].addr + HEADER_SIZE + list[i].size
            /\ list[Len(list)].addr + HEADER_SIZE + list[Len(list)].size
                  = heap_start + heap_size
            /\ BlockBytes(list) = heap_size

(***************************************************************************)
(* Claims about the RX buffers in flight                                   *)
(***************************************************************************)

\* C39: after virtio_net_init and after every call of virtio_net_receive
\* the RX available index is ahead of last_used_idx by the RX queue size,
\* modulo 2^16, also when the 16-bit indices wrap.
C39_RxBuffersConserved ==
    (virtio_initialized = 1 /\ vn_pc = "idle") =>
        ((rx_queue.avail.idx + U16) - rx_queue.last_used_idx) % U16 = rx_queue.size

\* A receive has returned a packet with last_used_idx wrapped to 0 and the
\* available index past the wrap.
C39_Witness ==
    /\ vn_pc = "idle"
    /\ vn_call.op = "receive"
    /\ vn_ret > 0
    /\ rx_queue.last_used_idx = 0
    /\ rx_queue.avail.idx = rx_queue.size
    /\ rx_queue.used.idx < rx_queue.size

(***************************************************************************)
(* Claims about bring-up when the heap runs out                            *)
(***************************************************************************)

\* The queue has its ring memory, its buffer table and every buffer.
QueueAllocated(vq) ==
    /\ vq.size > 0
    /\ DOMAIN vq.buffers = 0..(vq.size - 1)
    /\ \A i \in DOMAIN vq.buffers : vq.buffers[i] # NULL /\ vq.buffers[i] \in DOMAIN vn_buffers

\* C40: virtio_net_init sets virtio_initialized (and returns 0) only if for
\* both queues the ring memory, the buffer table and every buffer were
\* allocated and the queue's page frame number was written; once an
\* allocation has failed the driver stays uninitialized and net_init leaves
\* the network down; and no RX slot whose buffer is NULL is ever put in the
\* available ring.
C40_InitNeedsQueues ==
    /\ virtio_initialized = 1 =>
          /\ ~vq_failed
          /\ QueueAllocated(rx_queue) /\ QueueAllocated(tx_queue)
          /\ PfnPublished(0) /\ PfnPublished(1)
    /\ vq_failed => (virtio_initialized = 0 /\ net_inited = 0)
    /\ \A k \in 0..(rx_queue.avail.idx - 1) :
          rx_queue.desc[rx_queue.avail.ring[k]].addr # NULL
====
